---------------------------- MODULE Spec2Model ----------------------------
(***************************************************************************)
(* A model of walrus, a segmented write-ahead log with a leader-based      *)
(* cluster layer.                                                          *)
(*                                                                         *)
(*   Spec      the storage engine: Store, Index, Segment and Log           *)
(*             (src/src/log), driven through Log::new / append / read /    *)
(*             close / remove on one directory.                            *)
(*   SpecConc  threads appending through the SafeLog mutex.                *)
(*   SpecRepl  the cluster layer of three nodes (src/src/cluster): one     *)
(*             node is elected and written to, the handlers of the others  *)
(*             are called.                                                 *)
(*   SpecElect the election loops and handlers of the three nodes.         *)
(*   SpecWriters, SpecHandlers                                             *)
(*             calls that overlap on one node, taken one lock acquisition  *)
(*             at a time: append_entry, and the vote and heartbeat         *)
(*             handlers against the election loop.                         *)
(*   SpecRedeliver  a replication request handled twice by a follower.     *)
(*   SpecFailover   the leader stops while the other nodes run on.         *)
(***************************************************************************)
EXTENDS Integers, Sequences, FiniteSets, TLC

(***************************************************************************)
(* Bounds of the model.                                                    *)
(***************************************************************************)
MaxAppends == 3

(***************************************************************************)
(* Program constants.                                                      *)
(***************************************************************************)
OFF_WIDTH == 4
POS_WIDTH == 8
ENT_WIDTH == OFF_WIDTH + POS_WIDTH
LEN_WIDTH == 8
DefaultMaxBytes == 1024

\* Option<T>: None is the empty sequence, Some(x) the one-element sequence.
None == << >>
Some(x) == << x >>
IsSome(o) == Len(o) = 1
Unwrap(o) == o[1]

\* a let binding: v is evaluated once, then F of its value
Let(v, F(_)) == CHOOSE out \in { F(x) : x \in { v } } : TRUE

Min(a, b) == IF a <= b THEN a ELSE b
Max(a, b) == IF a >= b THEN a ELSE b
SatSub(a, b) == IF a >= b THEN a - b ELSE 0

\* `x as u32`: the cast wraps at 2^32, beyond the integers TLC computes with
\* (below 2^31); every size and offset of the model is far below that.
AsU32(x) == x

(***************************************************************************)
(* Inputs: the payloads a caller appends, the offsets a caller may put in  *)
(* the record before the append, and the configurations a log is opened    *)
(* with.  0 for a size selects the default of new_log.                     *)
(***************************************************************************)
Values == { << >>, << 1, 2 >> }
CallerOffsets == { 0, 7 }
StoreLimits == { 0, 20 }
IndexLimits == { 0, 12, 18 }
InitialOffsets == { 0, 1 }
Configs ==
    [ max_store_bytes : StoreLimits,
      max_index_bytes : IndexLimits,
      initial_offset : InitialOffsets ]

(***************************************************************************)
(* Record encoding (prost): field 1 = value (bytes), field 2 = offset      *)
(* (uint64 varint); a field holding its default value is not written.      *)
(***************************************************************************)
RECURSIVE Varint(_)
Varint(n) ==
    IF n < 128 THEN << n >> ELSE << 128 + (n % 128) >> \o Varint(n \div 128)

RECURSIVE ReadVarint(_, _)
ReadVarint(b, i) ==
    IF i > Len(b) THEN [ ok |-> FALSE, val |-> 0, next |-> i ]
    ELSE IF b[i] < 128 THEN [ ok |-> TRUE, val |-> b[i], next |-> i + 1 ]
    ELSE LET r == ReadVarint(b, i + 1)
         IN  [ ok |-> r.ok, val |-> (b[i] - 128) + 128 * r.val, next |-> r.next ]

TagValue == 10
TagOffset == 16

Encode(rec) ==
    (IF rec.value # << >>
       THEN << TagValue >> \o Varint(Len(rec.value)) \o rec.value
       ELSE << >>)
    \o (IF rec.offset # 0 THEN << TagOffset >> \o Varint(rec.offset) ELSE << >>)

RECURSIVE DecodeFields(_, _, _)
DecodeFields(b, i, rec) ==
    IF i > Len(b) THEN [ ok |-> TRUE, rec |-> rec ]
    ELSE IF b[i] = TagValue THEN
        LET n == ReadVarint(b, i + 1)
        IN  IF ~n.ok \/ n.next + n.val - 1 > Len(b)
              THEN [ ok |-> FALSE, rec |-> rec ]
              ELSE DecodeFields(b, n.next + n.val,
                     [ rec EXCEPT !.value = SubSeq(b, n.next, n.next + n.val - 1) ])
    ELSE IF b[i] = TagOffset THEN
        LET n == ReadVarint(b, i + 1)
        IN  IF ~n.ok THEN [ ok |-> FALSE, rec |-> rec ]
            ELSE DecodeFields(b, n.next, [ rec EXCEPT !.offset = n.val ])
    ELSE [ ok |-> FALSE, rec |-> rec ]

DefaultRecord == [ value |-> << >>, offset |-> 0 ]
Decode(b) == DecodeFields(b, 1, DefaultRecord)

(***************************************************************************)
(* Store: a file of [len: u64][bytes] frames and a buffered writer.  The   *)
(* file is the sequence of frames already written through; the in-memory   *)
(* store holds `size` and the frames still in the write buffer.            *)
(***************************************************************************)
RECURSIVE FramesLen(_)
FramesLen(fr) ==
    IF fr = << >> THEN 0 ELSE LEN_WIDTH + Len(Head(fr)) + FramesLen(Tail(fr))

\* store::new: size is the length of the file at open time, the buffer is empty
StoreNew(file) == [ size |-> FramesLen(file), buf |-> << >> ]

\* Store::append returning the position after the frame instead of before it
StoreAppend_PosAfter(s, p) ==
    [ store |-> [ size |-> s.size + Len(p) + LEN_WIDTH, buf |-> Append(s.buf, p) ],
      written |-> Len(p) + LEN_WIDTH,
      pos |-> s.size + Len(p) + LEN_WIDTH ]

\* Store::append: the frame goes into the buffer, size advances
StoreAppend(s, p) ==
    [ store |-> [ size |-> s.size + Len(p) + LEN_WIDTH, buf |-> Append(s.buf, p) ],
      written |-> Len(p) + LEN_WIDTH,
      pos |-> s.size ]

\* buf.flush(): the buffered frames are appended to the end of the file
StoreFlush(s, file) ==
    [ store |-> [ s EXCEPT !.buf = << >> ], file |-> file \o s.buf ]

\* the frame of `file` that starts at byte `pos`, 0 when no frame starts there
FrameAt(file, pos) ==
    LET hits == { i \in 1..Len(file) : FramesLen(SubSeq(file, 1, i - 1)) = pos }
    IN  IF hits = {} THEN 0 ELSE CHOOSE i \in hits : TRUE

\* Store::read: flush, then read the length prefix at pos and that many bytes
StoreRead(s, file, pos) ==
    LET fl == StoreFlush(s, file)
        i == FrameAt(fl.file, pos)
    IN  [ store |-> fl.store, file |-> fl.file,
          ok |-> i # 0,
          bytes |-> IF i # 0 THEN fl.file[i] ELSE << >> ]

\* Store::close
StoreClose(s, file) == StoreFlush(s, file)

(***************************************************************************)
(* Index: a memory map over a file of 12-byte (rel_off, store_pos)         *)
(* entries.  The file is its length in bytes and its whole entries; the    *)
(* in-memory index holds the logical size and the length of the map.       *)
(***************************************************************************)
ZeroEntry == << 0, 0 >>

\* A file is zero-filled past what was written: `ents` holds the entries up
\* to the last one written, every later whole entry of the file reads as zero.
EntryAt(ifile, i) == IF i <= Len(ifile.ents) THEN ifile.ents[i] ELSE ZeroEntry

\* file.set_len(newlen), growing the file
SetLen(ifile, newlen) == [ ifile EXCEPT !.len = newlen ]

\* the scan of index::new over the first file_size bytes of the map
RECURSIVE ScanIndex(_, _, _, _)
ScanIndex(ifile, file_size, offset, actual_size) ==
    IF ~(offset * ENT_WIDTH < file_size) THEN actual_size
    ELSE IF offset * ENT_WIDTH + ENT_WIDTH > file_size THEN actual_size
    ELSE IF EntryAt(ifile, offset + 1)[1] = 0 /\ offset > 0
            /\ EntryAt(ifile, offset + 1)[2] = 0
      THEN actual_size
    ELSE ScanIndex(ifile, file_size, offset + 1, (offset + 1) * ENT_WIDTH)

\* index::new without the recovery scan: the logical size starts at 0
IndexNew_NoScan(ifile, conf) ==
    LET sized == IF ifile.len < conf.max_index_bytes
                   THEN SetLen(ifile, conf.max_index_bytes) ELSE ifile
    IN  [ ifile |-> sized, index |-> [ size |-> 0, mmap_len |-> sized.len ] ]

\* index::new
IndexNew(ifile, conf) ==
    LET file_size == ifile.len
        sized == IF file_size < conf.max_index_bytes
                   THEN SetLen(ifile, conf.max_index_bytes) ELSE ifile
    IN  [ ifile |-> sized,
          index |-> [ size |-> IF file_size > 0
                                 THEN ScanIndex(sized, file_size, 0, 0) ELSE 0,
                      mmap_len |-> sized.len ] ]

\* Index::read
IndexRead(ix, ifile, offset) ==
    IF ix.size = 0 THEN [ ok |-> FALSE, off |-> 0, pos |-> 0 ]
    ELSE IF offset # -1 /\ offset < 0 THEN [ ok |-> FALSE, off |-> 0, pos |-> 0 ]
    ELSE LET index == IF offset = -1
                        THEN SatSub(AsU32(ix.size) \div ENT_WIDTH, 1)
                        ELSE AsU32(offset)
             position == index * ENT_WIDTH
         IN  IF ix.size < position + ENT_WIDTH
               THEN [ ok |-> FALSE, off |-> 0, pos |-> 0 ]
               ELSE [ ok |-> TRUE,
                      off |-> EntryAt(ifile, index + 1)[1],
                      pos |-> EntryAt(ifile, index + 1)[2] ]

\* Index::read(offset) for the i64 offset high * 2^32 + low, 0 <= low < 2^31:
\* with high > 0 the integers TLC computes with do not hold the offset, and
\* `offset as u32` keeps low
IndexReadWide(ix, ifile, high, low) ==
    IF high = 0 THEN IndexRead(ix, ifile, low)
    ELSE IF ix.size = 0 THEN [ ok |-> FALSE, off |-> 0, pos |-> 0 ]
    ELSE IF high < 0 THEN [ ok |-> FALSE, off |-> 0, pos |-> 0 ]
    ELSE LET index == low
             position == index * ENT_WIDTH
         IN  IF ix.size < position + ENT_WIDTH
               THEN [ ok |-> FALSE, off |-> 0, pos |-> 0 ]
               ELSE [ ok |-> TRUE,
                      off |-> EntryAt(ifile, index + 1)[1],
                      pos |-> EntryAt(ifile, index + 1)[2] ]

\* the entries of the file after 12 bytes are written at entry slot i
PutEntry(ifile, i, e) ==
    [ ifile EXCEPT !.ents =
        [ k \in 1..Max(i, Len(ifile.ents)) |-> IF k = i THEN e ELSE EntryAt(ifile, k) ] ]

\* Index::write
IndexWrite(ix, ifile, off, pos) ==
    IF ix.mmap_len < ix.size + ENT_WIDTH
      THEN [ ok |-> FALSE, index |-> ix, ifile |-> ifile ]
      ELSE [ ok |-> TRUE,
             index |-> [ ix EXCEPT !.size = ix.size + ENT_WIDTH ],
             ifile |-> PutEntry(ifile, (ix.size \div ENT_WIDTH) + 1, << off, pos >>) ]


(***************************************************************************)
(* Segment: one store and one index bound to a base offset.  The directory *)
(* (disk) maps a base offset n to the pair of files n.store and n.index.   *)
(***************************************************************************)
EmptyIndexFile == [ len |-> 0, ents |-> << >> ]

WithFile(d, base, files) ==
    [ b \in (DOMAIN d) \cup { base } |-> IF b = base THEN files ELSE d[b] ]

WithoutFile(d, base) == [ b \in (DOMAIN d) \ { base } |-> d[b] ]

\* segment::new: open or create the two files, recover next_offset from the index
SegmentNew(d, base_off, conf) ==
    LET sfile == IF base_off \in DOMAIN d THEN d[base_off].store ELSE << >>
        ifile == IF base_off \in DOMAIN d THEN d[base_off].index ELSE EmptyIndexFile
        store == StoreNew(sfile)
    IN  Let(IndexNew(ifile, conf), LAMBDA ix :
        Let(IndexRead(ix.index, ix.ifile, -1), LAMBDA last :
        [ disk |-> WithFile(d, base_off, [ store |-> sfile, index |-> ix.ifile ]),
          seg |-> [ base_offset |-> base_off,
                    next_offset |-> IF last.ok THEN base_off + last.off + 1 ELSE base_off,
                    store |-> store,
                    index |-> ix.index,
                    config |-> conf ] ]))

\* the first half of Segment::append leaving the caller's offset in the record
SegmentAppendStore_KeepsCallerOffset(seg, record) ==
    LET sa == StoreAppend(seg.store, Encode(record))
    IN  [ seg |-> [ seg EXCEPT !.store = sa.store ], record |-> record, pos |-> sa.pos ]

\* Segment::append, first half: the record takes next_offset as its offset,
\* is encoded and goes into the store
SegmentAppendStore(seg, record) ==
    LET current_offset == seg.next_offset
        rec == [ record EXCEPT !.offset = current_offset ]
        sa == StoreAppend(seg.store, Encode(rec))
    IN  [ seg |-> [ seg EXCEPT !.store = sa.store ], record |-> rec, pos |-> sa.pos ]

\* Segment::append, second half, that advances next_offset when the index write fails
SegmentAppendIndex_CountsFailure(seg, d, rec, position) ==
    LET relative_offset == AsU32(seg.next_offset - seg.base_offset)
        iw == IndexWrite(seg.index, d[seg.base_offset].index, relative_offset, position)
    IN  IF ~iw.ok
          THEN [ ok |-> FALSE, offset |-> 0, err |-> "IndexFull",
                 seg |-> [ seg EXCEPT !.next_offset = seg.next_offset + 1 ], disk |-> d ]
          ELSE [ ok |-> TRUE, offset |-> rec.offset, err |-> "",
                 seg |-> [ seg EXCEPT !.index = iw.index,
                                      !.next_offset = seg.next_offset + 1 ],
                 disk |-> [ d EXCEPT ![seg.base_offset].index = iw.ifile ] ]

\* Segment::append, second half: the index entry, next_offset, the result
SegmentAppendIndex(seg, d, rec, position) ==
    LET relative_offset == AsU32(seg.next_offset - seg.base_offset)
        iw == IndexWrite(seg.index, d[seg.base_offset].index, relative_offset, position)
    IN  IF ~iw.ok
          THEN [ ok |-> FALSE, offset |-> 0, err |-> "IndexFull",
                 seg |-> seg, disk |-> d ]
          ELSE [ ok |-> TRUE, offset |-> rec.offset, err |-> "",
                 seg |-> [ seg EXCEPT !.index = iw.index,
                                      !.next_offset = seg.next_offset + 1 ],
                 disk |-> [ d EXCEPT ![seg.base_offset].index = iw.ifile ] ]

\* Segment::append
SegmentAppend(seg, d, record) ==
    Let(SegmentAppendStore(seg, record),
        LAMBDA s1 : SegmentAppendIndex(s1.seg, d, s1.record, s1.pos))

\* Segment::read
SegmentRead(seg, d, offset) ==
    IF offset < seg.base_offset \/ offset >= seg.next_offset
      THEN [ ok |-> FALSE, err |-> "NotFound", record |-> DefaultRecord,
             seg |-> seg, disk |-> d ]
      ELSE
        LET ir == IndexRead(seg.index, d[seg.base_offset].index, offset - seg.base_offset)
            sr == StoreRead(seg.store, d[seg.base_offset].store, ir.pos)
            dec == Decode(sr.bytes)
        IN  IF ~ir.ok
              THEN [ ok |-> FALSE, err |-> "Index", record |-> DefaultRecord,
                     seg |-> seg, disk |-> d ]
              ELSE [ ok |-> sr.ok /\ dec.ok,
                     err |-> IF ~sr.ok THEN "Store" ELSE IF ~dec.ok THEN "Decode" ELSE "",
                     record |-> IF sr.ok /\ dec.ok THEN dec.rec ELSE DefaultRecord,
                     seg |-> [ seg EXCEPT !.store = sr.store ],
                     disk |-> [ d EXCEPT ![seg.base_offset].store = sr.file ] ]

\* Segment::is_maxed
IsMaxed(seg) ==
    \/ seg.store.size >= seg.config.max_store_bytes
    \/ seg.index.size >= seg.config.max_index_bytes

\* Segment::close: sync the index, flush the store
SegmentClose(seg, d) ==
    IF seg.base_offset \in DOMAIN d
      THEN LET fl == StoreClose(seg.store, d[seg.base_offset].store)
           IN  [ seg |-> [ seg EXCEPT !.store = fl.store ],
                 disk |-> [ d EXCEPT ![seg.base_offset].store = fl.file ] ]
      ELSE \* the files were unlinked: the flush reaches no file of the directory
           [ seg |-> [ seg EXCEPT !.store.buf = << >> ], disk |-> d ]

\* Segment::remove: close, then delete both files (an error when they are gone)
SegmentRemove(seg, d) ==
    LET c == SegmentClose(seg, d)
    IN  IF seg.base_offset \in DOMAIN d
          THEN [ ok |-> TRUE, seg |-> c.seg, disk |-> WithoutFile(c.disk, seg.base_offset) ]
          ELSE [ ok |-> FALSE, seg |-> c.seg, disk |-> c.disk ]

(***************************************************************************)
(* Log: the segments of one directory, the last of them active.            *)
(***************************************************************************)
RECURSIVE SortedSeq(_)
SortedSeq(S) ==
    IF S = {} THEN << >>
    ELSE LET m == CHOOSE x \in S : \A y \in S : x <= y
         IN  << m >> \o SortedSeq(S \ { m })

\* setup_log: the base offsets of the <n>.store files, ascending
SetupLog(d) == SortedSeq(DOMAIN d)

\* the loop of new_log that opens one segment per base offset
RECURSIVE LoadSegments(_, _, _, _)
LoadSegments(d, base_offsets, conf, segs) ==
    IF base_offsets = << >> THEN [ disk |-> d, segments |-> segs ]
    ELSE LET r == SegmentNew(d, Head(base_offsets), conf)
         IN  LoadSegments(r.disk, Tail(base_offsets), conf, Append(segs, r.seg))

\* the defaults new_log puts in place of 0
EffectiveConfig(config) ==
    [ config EXCEPT
        !.max_store_bytes = IF config.max_store_bytes = 0
                              THEN DefaultMaxBytes ELSE config.max_store_bytes,
        !.max_index_bytes = IF config.max_index_bytes = 0
                              THEN DefaultMaxBytes ELSE config.max_index_bytes ]

\* new_log
NewLog(d, config) ==
    LET conf == EffectiveConfig(config)
        loaded == LoadSegments(d, SetupLog(d), conf, << >>)
        n == Len(loaded.segments)
    IN  [ disk |-> loaded.disk,
          log |-> [ config |-> conf,
                    active_segment |-> IF n > 0 THEN Some(loaded.segments[n]) ELSE None,
                    segments |-> IF n > 0 THEN SubSeq(loaded.segments, 1, n - 1)
                                          ELSE << >> ] ]

\* Log::new_segment that starts the new segment one offset too far
NewSegment_SkipsOffset(lg, d) ==
    LET base_offset == IF IsSome(lg.active_segment)
                         THEN Unwrap(lg.active_segment).next_offset + 1
                         ELSE lg.config.initial_offset
    IN  Let(SegmentNew(d, base_offset, lg.config), LAMBDA r :
        [ disk |-> r.disk,
          log |-> [ lg EXCEPT
                      !.segments = IF IsSome(lg.active_segment)
                                     THEN Append(lg.segments, Unwrap(lg.active_segment))
                                     ELSE lg.segments,
                      !.active_segment = Some(r.seg) ] ])

\* Log::new_segment
NewSegment(lg, d) ==
    LET base_offset == IF IsSome(lg.active_segment)
                         THEN Unwrap(lg.active_segment).next_offset
                         ELSE lg.config.initial_offset
    IN  Let(SegmentNew(d, base_offset, lg.config), LAMBDA r :
        [ disk |-> r.disk,
          log |-> [ lg EXCEPT
                      !.segments = IF IsSome(lg.active_segment)
                                     THEN Append(lg.segments, Unwrap(lg.active_segment))
                                     ELSE lg.segments,
                      !.active_segment = Some(r.seg) ] ])

\* Log::append, the rotation: a new segment when there is no active segment
\* or the active one is maxed
Rotate(lg, d) ==
    IF ~IsSome(lg.active_segment) \/ IsMaxed(Unwrap(lg.active_segment))
      THEN NewSegment(lg, d)
      ELSE [ disk |-> d, log |-> lg ]

\* Log::append that appends to the oldest segment the Log holds
LogAppend_ToOldest(lg, d, record) ==
    Let(Rotate(lg, d), LAMBDA rot :
    IF rot.log.segments = << >>
      THEN Let(SegmentAppend(Unwrap(rot.log.active_segment), rot.disk, record), LAMBDA a :
               [ ok |-> a.ok, offset |-> a.offset, err |-> a.err,
                 log |-> [ rot.log EXCEPT !.active_segment = Some(a.seg) ],
                 disk |-> a.disk ])
      ELSE Let(SegmentAppend(rot.log.segments[1], rot.disk, record), LAMBDA a :
               [ ok |-> a.ok, offset |-> a.offset, err |-> a.err,
                 log |-> [ rot.log EXCEPT !.segments[1] = a.seg ],
                 disk |-> a.disk ]))

\* Log::append
LogAppend(lg, d, record) ==
    Let(Rotate(lg, d), LAMBDA rot :
    Let(SegmentAppend(Unwrap(rot.log.active_segment), rot.disk, record), LAMBDA a :
        [ ok |-> a.ok, offset |-> a.offset, err |-> a.err,
          log |-> [ rot.log EXCEPT !.active_segment = Some(a.seg) ],
          disk |-> a.disk ]))

\* Log::read that answers a default record when no segment owns the offset
LogRead_DefaultOnMiss(lg, d, offset) ==
    LET owns(seg) == offset >= seg.base_offset /\ offset < seg.next_offset
        hits == { i \in 1..Len(lg.segments) : owns(lg.segments[i]) }
    IN  IF hits # {}
          THEN LET i == CHOOSE x \in hits : \A y \in hits : x <= y
                   r == SegmentRead(lg.segments[i], d, offset)
               IN  [ ok |-> r.ok, err |-> r.err, record |-> r.record,
                     log |-> [ lg EXCEPT !.segments[i] = r.seg ], disk |-> r.disk ]
        ELSE IF IsSome(lg.active_segment) /\ owns(Unwrap(lg.active_segment))
          THEN LET r == SegmentRead(Unwrap(lg.active_segment), d, offset)
               IN  [ ok |-> r.ok, err |-> r.err, record |-> r.record,
                     log |-> [ lg EXCEPT !.active_segment = Some(r.seg) ], disk |-> r.disk ]
        ELSE [ ok |-> TRUE, err |-> "", record |-> DefaultRecord,
               log |-> lg, disk |-> d ]

\* Log::read
LogRead(lg, d, offset) ==
    LET owns(seg) == offset >= seg.base_offset /\ offset < seg.next_offset
        hits == { i \in 1..Len(lg.segments) : owns(lg.segments[i]) }
    IN  IF hits # {}
          THEN LET i == CHOOSE x \in hits : \A y \in hits : x <= y
                   r == SegmentRead(lg.segments[i], d, offset)
               IN  [ ok |-> r.ok, err |-> r.err, record |-> r.record,
                     log |-> [ lg EXCEPT !.segments[i] = r.seg ], disk |-> r.disk ]
        ELSE IF IsSome(lg.active_segment) /\ owns(Unwrap(lg.active_segment))
          THEN LET r == SegmentRead(Unwrap(lg.active_segment), d, offset)
               IN  [ ok |-> r.ok, err |-> r.err, record |-> r.record,
                     log |-> [ lg EXCEPT !.active_segment = Some(r.seg) ], disk |-> r.disk ]
        ELSE [ ok |-> FALSE, err |-> "NotFound", record |-> DefaultRecord,
               log |-> lg, disk |-> d ]

\* closing a list of segments in order
RECURSIVE CloseSegments(_, _, _)
CloseSegments(segs, d, done) ==
    IF segs = << >> THEN [ segments |-> done, disk |-> d ]
    ELSE LET c == SegmentClose(Head(segs), d)
         IN  CloseSegments(Tail(segs), c.disk, Append(done, c.seg))

\* Log::close: the active segment, then every other segment
LogClose(lg, d) ==
    LET a == IF IsSome(lg.active_segment)
               THEN SegmentClose(Unwrap(lg.active_segment), d)
               ELSE [ seg |-> None, disk |-> d ]
        rest == CloseSegments(lg.segments, a.disk, << >>)
    IN  [ log |-> [ lg EXCEPT
                      !.active_segment = IF IsSome(lg.active_segment)
                                           THEN Some(a.seg) ELSE None,
                      !.segments = rest.segments ],
          disk |-> rest.disk ]

\* removing a list of segments in order, stopping at the first error
RECURSIVE RemoveSegments(_, _)
RemoveSegments(segs, d) ==
    IF segs = << >> THEN [ ok |-> TRUE, disk |-> d ]
    ELSE LET r == SegmentRemove(Head(segs), d)
         IN  IF r.ok THEN RemoveSegments(Tail(segs), r.disk)
             ELSE [ ok |-> FALSE, disk |-> r.disk ]

\* Log::remove: the active segment, every other segment, then the directory
LogRemove(lg, d) ==
    LET r == RemoveSegments(lg.active_segment \o lg.segments, d)
    IN  IF r.ok THEN [ ok |-> TRUE, disk |-> << >> ]
        ELSE [ ok |-> FALSE, disk |-> r.disk ]


(***************************************************************************)
(* State of the storage engine.                                            *)
(*   cfg        the Config every Log::new of the behaviour is given        *)
(*   disk       the log directory: base offset -> (store file, index file) *)
(*   log        the Log object, None once it has been dropped              *)
(*   ret        the last call and what it returned                         *)
(*   appended   history: the (offset, value) of every successful append    *)
(*              since the directory was last removed                       *)
(*   nappends   number of append calls made                                *)
(*   reopened   history: the Log was dropped and opened again on the       *)
(*              directory since the directory was last removed             *)
(***************************************************************************)
VARIABLES cfg, disk, log, ret, appended, nappends, reopened

logVars == << cfg, disk, log, ret, appended, nappends, reopened >>

(***************************************************************************)
(* State of the threads that share the Log as a SafeLog.                   *)
(*   mutex      the Mutex of the SafeLog: "free" or the thread holding it  *)
(*   tpc        where each thread is: "idle", "locked" (holds the guard),  *)
(*              "appending" (inside Log::append, the frame is in the       *)
(*              store, the index entry is not written yet)                 *)
(*   tlocal     the locals of the Log::append each thread is inside        *)
(***************************************************************************)
VARIABLES mutex, tpc, tlocal

concVars == << mutex, tpc, tlocal >>

(***************************************************************************)
(* State of the cluster layer, one copy per node.                          *)
(*   st           the ClusterState behind each ClusterStateManager         *)
(*   next_index   ReplicationManager.next_index of each node               *)
(*   match_index  ReplicationManager.match_index of each node              *)
(*   nlog         the node's Log and its directory                         *)
(*   cret         the last cluster call and what came of it                *)
(*   written      history: the writes that returned an offset, with the    *)
(*                index and the term of the entry each of them created     *)
(*   ncalls       number of cluster calls made                             *)
(*   overflow_checks  the build: TRUE when integer overflow panics         *)
(*   epc          where each node's election loop is                       *)
(***************************************************************************)
VARIABLES st, next_index, match_index, nlog, cret, written, ncalls,
          overflow_checks, epc

clusterVars ==
    << st, next_index, match_index, nlog, cret, written, ncalls,
       overflow_checks, epc >>

(***************************************************************************)
(* State of the calls that run concurrently against one node's managers.   *)
(*   tasks      where each call is between its get_state and its writes,   *)
(*              with the locals it holds                                   *)
(*   vote_term  history: the current_term each node had when the vote in   *)
(*              its voted_for was cast, 0 while voted_for is None          *)
(*   timers     the time, in ticks, since election_timer was set in the    *)
(*              two LeaderElection objects of each node: the one the       *)
(*              election loop runs on and the one the handlers are called  *)
(*              on                                                         *)
(***************************************************************************)
VARIABLES tasks, vote_term, timers

taskVars == << tasks, vote_term, timers >>

vars == << logVars, concVars, clusterVars, taskVars >>

NoRet ==
    [ op |-> "none", ok |-> TRUE, err |-> "", offset |-> 0,
      record |-> DefaultRecord, arg |-> 0 ]

ReadOffsets == 0..(MaxAppends + 1)

Threads == { "t1", "t2" }

NoLocal == [ record |-> DefaultRecord, pos |-> 0 ]

\* no thread has touched the SafeLog
ConcIdle ==
    /\ mutex = "free"
    /\ tpc = [ t \in Threads |-> "idle" ]
    /\ tlocal = [ t \in Threads |-> NoLocal ]

\* the process runs no cluster layer
ClusterOff ==
    /\ st = << >>
    /\ next_index = << >>
    /\ match_index = << >>
    /\ nlog = << >>
    /\ cret = << >>
    /\ written = << >>
    /\ ncalls = 0
    /\ overflow_checks = FALSE
    /\ epc = << >>
    /\ tasks = << >>
    /\ vote_term = << >>
    /\ timers = << >>

\* Log::new on an empty directory
Init ==
    /\ cfg \in Configs
    /\ LET n == NewLog(<< >>, cfg)
       IN  /\ disk = n.disk
           /\ log = Some(n.log)
    /\ ret = NoRet
    /\ appended = << >>
    /\ nappends = 0
    /\ reopened = FALSE
    /\ ConcIdle
    /\ ClusterOff

\* log.append(&mut record)
AppendOp(value, caller_offset) ==
    /\ IsSome(log)
    /\ nappends < MaxAppends
    /\ LET record == [ value |-> value, offset |-> caller_offset ]
           r == LogAppend(Unwrap(log), disk, record)
       IN  /\ log' = Some(r.log)
           /\ disk' = r.disk
           /\ ret' = [ NoRet EXCEPT !.op = "append", !.ok = r.ok, !.err = r.err,
                                    !.offset = r.offset, !.arg = caller_offset ]
           /\ appended' = IF r.ok
                            THEN Append(appended, [ offset |-> r.offset, value |-> value,
                                                   by |-> "main" ])
                            ELSE appended
    /\ nappends' = nappends + 1
    /\ UNCHANGED << cfg, reopened >>
    /\ UNCHANGED << concVars, clusterVars, taskVars >>

\* log.read(offset)
Read(offset) ==
    /\ IsSome(log)
    /\ LET r == LogRead(Unwrap(log), disk, offset)
       IN  /\ log' = Some(r.log)
           /\ disk' = r.disk
           /\ ret' = [ NoRet EXCEPT !.op = "read", !.ok = r.ok, !.err = r.err,
                                    !.offset = offset, !.record = r.record ]
    /\ UNCHANGED << cfg, appended, nappends, reopened >>
    /\ UNCHANGED << concVars, clusterVars, taskVars >>

\* log.close()
Close ==
    /\ IsSome(log)
    /\ LET r == LogClose(Unwrap(log), disk)
       IN  /\ log' = Some(r.log)
           /\ disk' = r.disk
    /\ ret' = [ NoRet EXCEPT !.op = "close" ]
    /\ UNCHANGED << cfg, appended, nappends, reopened >>
    /\ UNCHANGED << concVars, clusterVars, taskVars >>

\* the Log is dropped: every BufWriter flushes as it goes
Drop ==
    /\ IsSome(log)
    /\ disk' = LogClose(Unwrap(log), disk).disk
    /\ log' = None
    /\ ret' = [ NoRet EXCEPT !.op = "drop" ]
    /\ UNCHANGED << cfg, appended, nappends, reopened >>
    /\ UNCHANGED << concVars, clusterVars, taskVars >>

\* Log::new on the directory as the previous Log left it
Open ==
    /\ log = None
    /\ LET n == NewLog(disk, cfg)
       IN  /\ disk' = n.disk
           /\ log' = Some(n.log)
    /\ ret' = [ NoRet EXCEPT !.op = "open" ]
    /\ reopened' = TRUE
    /\ UNCHANGED << cfg, appended, nappends >>
    /\ UNCHANGED << concVars, clusterVars, taskVars >>

\* log.remove(), the last call on a Log: the object is dropped after it
Remove ==
    /\ IsSome(log)
    /\ LET r == LogRemove(Unwrap(log), disk)
       IN  /\ disk' = r.disk
           /\ ret' = [ NoRet EXCEPT !.op = "remove", !.ok = r.ok ]
    /\ log' = None
    /\ appended' = << >>
    /\ reopened' = FALSE
    /\ UNCHANGED << cfg, nappends >>
    /\ UNCHANGED << concVars, clusterVars, taskVars >>

Next ==
    \/ \E value \in Values, caller_offset \in CallerOffsets : AppendOp(value, caller_offset)
    \/ \E offset \in ReadOffsets : Read(offset)
    \/ Close
    \/ Drop
    \/ Open
    \/ Remove

Spec == Init /\ [][Next]_vars


(***************************************************************************)
(* Properties of the storage engine.                                       *)
(***************************************************************************)
\* what log.read(offset) returns in the current state
ReadNow(offset) == LogRead(Unwrap(log), disk, offset)

ReadsBack(h) ==
    LET r == ReadNow(h.offset)
    IN  r.ok /\ r.record.value = h.value /\ r.record.offset = h.offset

\* C1: every record a successful append stored reads back, at the offset the
\* append returned, with the value appended and that offset in its offset
\* field, across any number of rotations, until remove.
C1_AppendedReadsBack ==
    IsSome(log) => \A i \in 1..Len(appended) : ReadsBack(appended[i])

\* a read of a record that sits in a rotated-out segment has just succeeded
C1_Witness ==
    /\ IsSome(log) /\ ~reopened
    /\ Len(appended) >= 3
    /\ Len(Unwrap(log).segments) >= 1
    /\ ret.op = "read" /\ ret.ok
    /\ ret.offset < Unwrap(log).segments[1].next_offset
    /\ ret.record.value # << >>

\* C2: the k-th successful append (k = 0, 1, ...) returns initial_offset + k,
\* whatever offset the caller put in the record.
C2_OffsetsSequential ==
    /\ \A i \in 1..Len(appended) : appended[i].offset = cfg.initial_offset + (i - 1)
    /\ (ret.op = "append" /\ ret.ok) =>
          ret.offset = cfg.initial_offset + (Len(appended) - 1)

\* the third append returned its offset although the caller asked for another
C2_Witness ==
    /\ ret.op = "append" /\ ret.ok
    /\ Len(appended) >= 3
    /\ ret.arg # ret.offset
    /\ ret.offset = cfg.initial_offset + 2

\* C3: after the Log is dropped and opened again on the same directory with
\* the same config, every record appended before reads back with its value,
\* the next append returns the offset after the last one, and old and new
\* records all read back.
C3_ReopenPreserves ==
    (IsSome(log) /\ reopened) =>
        /\ \A i \in 1..Len(appended) :
              /\ ReadsBack(appended[i])
              /\ appended[i].offset = cfg.initial_offset + (i - 1)
        /\ LET a == LogAppend(Unwrap(log), disk, DefaultRecord)
           IN  a.ok => a.offset = cfg.initial_offset + Len(appended)

\* the Log has just been opened again on a directory that holds records in
\* several segments, and it accepts a further append
C3_Witness ==
    /\ IsSome(log) /\ reopened
    /\ ret.op = "open"
    /\ Len(appended) >= 3
    /\ Len(Unwrap(log).segments) >= 1
    /\ LogAppend(Unwrap(log), disk, DefaultRecord).ok

\* the offsets Log::read has no segment for: below the first segment's
\* base_offset or at/above the active segment's next_offset
FirstSegment(lg) ==
    IF lg.segments # << >> THEN lg.segments[1] ELSE Unwrap(lg.active_segment)

OutOfRange(lg, offset) ==
    \/ ~IsSome(lg.active_segment)
    \/ offset < FirstSegment(lg).base_offset
    \/ offset >= Unwrap(lg.active_segment).next_offset

\* C4: a read below the first segment's base_offset or at/above the active
\* segment's next_offset (so every read of a log without records) fails
\* with not-found and changes nothing.
C4_ReadOutOfRange ==
    [][ \A offset \in ReadOffsets :
          (Read(offset) /\ OutOfRange(Unwrap(log), offset)) =>
              /\ ~ret'.ok /\ ret'.err = "NotFound"
              /\ log' = log /\ disk' = disk ]_vars

\* a read just past the last record of a log that holds records has failed
C4_Witness ==
    /\ IsSome(log) /\ Len(appended) >= 2
    /\ ret.op = "read" /\ ~ret.ok /\ ret.err = "NotFound"
    /\ IsSome(Unwrap(log).active_segment)
    /\ ret.offset = Unwrap(Unwrap(log).active_segment).next_offset

\* C16: no append returns the index-full error to its caller, whatever the
\* configured max_index_bytes.
C16_NoIndexFullToCaller ==
    ~(ret.op = "append" /\ ~ret.ok /\ ret.err = "IndexFull")

\* the bytes a record takes in the store: the length prefix and the encoding
FrameSize(rec) == LEN_WIDTH + Len(Encode(rec))

\* C17: an append that would take the store of an active segment that holds
\* records beyond max_store_bytes opens a new segment and puts the record
\* there.
C17_OverflowRotates ==
    [][\A value \in Values, caller_offset \in CallerOffsets :
          ( /\ AppendOp(value, caller_offset)
            /\ IsSome(Unwrap(log).active_segment)
            /\ LET seg == Unwrap(Unwrap(log).active_segment)
               IN  /\ seg.store.size > 0
                   /\ seg.store.size
                        + FrameSize([ value |-> value, offset |-> seg.next_offset ])
                          > seg.config.max_store_bytes ) =>
              /\ Len(Unwrap(log').segments) = Len(Unwrap(log).segments) + 1
              /\ Unwrap(Unwrap(log').active_segment).base_offset
                   # Unwrap(Unwrap(log).active_segment).base_offset]_vars

\* the segments of a log in the order the Log holds them, the active one last
AllSegments(lg) == lg.segments \o lg.active_segment

\* C18: the segments of a Log follow one another without gap or overlap:
\* each segment's range [base_offset, next_offset) is well formed, each
\* segment but the active one ends where the next one begins, and so the
\* active segment has the largest base_offset.
C18_SegmentsContiguous ==
    IsSome(log) =>
        LET segs == AllSegments(Unwrap(log))
        IN  /\ \A i \in 1..Len(segs) : segs[i].base_offset <= segs[i].next_offset
            /\ \A i \in 1..(Len(segs) - 1) :
                   segs[i].next_offset = segs[i + 1].base_offset
            /\ \A i \in 1..Len(segs) :
                   segs[i].base_offset <= segs[Len(segs)].base_offset

\* a Log of three segments, each holding a record, has just been opened again
C18_Witness ==
    /\ IsSome(log) /\ reopened
    /\ ret.op = "open"
    /\ Len(Unwrap(log).segments) >= 2
    /\ \A i \in 1..Len(AllSegments(Unwrap(log))) :
           AllSegments(Unwrap(log))[i].next_offset
               > AllSegments(Unwrap(log))[i].base_offset


(***************************************************************************)
(* The Log shared by threads as a SafeLog, Arc<Mutex<Log>>.  A thread      *)
(* locks the mutex, appends any number of records through the guard, and   *)
(* drops the guard.  Log::append is taken in two steps, so that what the   *)
(* mutex excludes is visible: first the rotation and the store half of     *)
(* Segment::append, then the index half.                                   *)
(***************************************************************************)
\* the mutex that ignores its holder
MutexFree_Ignored == TRUE

\* Mutex::lock returns when no thread holds the guard
MutexFree == mutex = "free"

\* log.lock().unwrap()
Lock(t) ==
    /\ tpc[t] = "idle"
    /\ MutexFree
    /\ mutex' = t
    /\ tpc' = [ tpc EXCEPT ![t] = "locked" ]
    /\ UNCHANGED << logVars, tlocal, clusterVars, taskVars >>

\* guard.append(&mut record), up to the frame being in the store
AppendBegin(t, value, caller_offset) ==
    /\ tpc[t] = "locked"
    /\ IsSome(log)
    /\ nappends < MaxAppends
    /\ LET record == [ value |-> value, offset |-> caller_offset ]
           rot == Rotate(Unwrap(log), disk)
           s1 == SegmentAppendStore(Unwrap(rot.log.active_segment), record)
       IN  /\ log' = Some([ rot.log EXCEPT !.active_segment = Some(s1.seg) ])
           /\ disk' = rot.disk
           /\ tlocal' = [ tlocal EXCEPT ![t] = [ record |-> s1.record, pos |-> s1.pos ] ]
    /\ tpc' = [ tpc EXCEPT ![t] = "appending" ]
    /\ nappends' = nappends + 1
    /\ UNCHANGED << cfg, ret, appended, reopened, mutex, clusterVars, taskVars >>

\* guard.append(&mut record), from the index entry to the return
AppendEnd(t) ==
    /\ tpc[t] = "appending"
    /\ IsSome(log)
    /\ LET lg == Unwrap(log)
           a == SegmentAppendIndex(Unwrap(lg.active_segment), disk,
                                   tlocal[t].record, tlocal[t].pos)
       IN  /\ log' = Some([ lg EXCEPT !.active_segment = Some(a.seg) ])
           /\ disk' = a.disk
           /\ ret' = [ NoRet EXCEPT !.op = "append", !.ok = a.ok, !.err = a.err,
                                    !.offset = a.offset ]
           /\ appended' = IF a.ok
                            THEN Append(appended, [ offset |-> a.offset,
                                                    value |-> tlocal[t].record.value,
                                                    by |-> t ])
                            ELSE appended
    /\ tpc' = [ tpc EXCEPT ![t] = "locked" ]
    /\ tlocal' = [ tlocal EXCEPT ![t] = NoLocal ]
    /\ UNCHANGED << cfg, nappends, reopened, mutex, clusterVars, taskVars >>

\* the guard is dropped
Unlock(t) ==
    /\ tpc[t] = "locked"
    /\ mutex' = "free"
    /\ tpc' = [ tpc EXCEPT ![t] = "idle" ]
    /\ UNCHANGED << logVars, tlocal, clusterVars, taskVars >>

NextConc ==
    \/ \E t \in Threads : Lock(t)
    \/ \E t \in Threads, value \in Values, caller_offset \in CallerOffsets :
           AppendBegin(t, value, caller_offset)
    \/ \E t \in Threads : AppendEnd(t)
    \/ \E t \in Threads : Unlock(t)

SpecConc == Init /\ [][NextConc]_vars

\* C5: appends made by several threads, each while holding the mutex of the
\* SafeLog, get distinct offsets that form the gap-free range from the
\* initial offset in the order the appends complete, and once no append is
\* in progress every one of them reads back with its value and its offset.
C5_ConcurrentAppends ==
    /\ \A i \in 1..Len(appended) : appended[i].offset = cfg.initial_offset + i - 1
    /\ \A i, j \in 1..Len(appended) :
           i # j => appended[i].offset # appended[j].offset
    /\ (\A t \in Threads : tpc[t] # "appending") =>
           \A i \in 1..Len(appended) : ReadsBack(appended[i])

\* one thread appended, the other appended after it, the first once more,
\* and the mutex is free again
C5_Witness ==
    /\ mutex = "free"
    /\ Len(appended) = 3
    /\ appended[1].by = "t1"
    /\ appended[2].by = "t2"
    /\ appended[3].by = "t1"


(***************************************************************************)
(* Cluster state: cluster/state.rs.  A ClusterState is a record; its nodes *)
(* map is a function from the registered node ids to their NodeInfo.  The  *)
(* id and the address of a NodeInfo never change and are left out.  Its    *)
(* last_heartbeat, an Instant, is kept as the time that has passed since   *)
(* it was taken, in ticks.                                                 *)
(***************************************************************************)
Node == { "n1", "n2", "n3" }

MaxTerm == 2
MaxWrites == 2
MaxRequests == 1

EmptyMap == [ k \in {} |-> 0 ]

\* HashMap::get(k).copied().unwrap_or(0)
MapGet(m, k) == IF k \in DOMAIN m THEN m[k] ELSE 0

\* HashMap::insert
MapPut(m, k, v) == [ x \in DOMAIN m \cup { k } |-> IF x = k THEN v ELSE m[x] ]

\* NodeInfo::new, as add_node is given it
NodeInfoNew ==
    [ role |-> "Follower", term |-> 0, last_heartbeat |-> None, is_alive |-> TRUE ]

\* ClusterState::default
ClusterStateDefault ==
    [ current_term |-> 0, voted_for |-> None, leader_id |-> None,
      nodes |-> EmptyMap, commit_index |-> 0, last_applied |-> 0 ]

\* ClusterStateManager::increment_term that leaves voted_for as it is
IncrementTerm_KeepsVote(s) ==
    [ s EXCEPT !.current_term = s.current_term + 1, !.leader_id = None ]

\* ClusterStateManager::increment_term
IncrementTerm(s) ==
    [ s EXCEPT !.current_term = s.current_term + 1, !.voted_for = None,
               !.leader_id = None ]

\* ClusterStateManager::set_leader
SetLeader(s, leader_id) == [ s EXCEPT !.leader_id = Some(leader_id) ]

\* ClusterStateManager::set_role
SetRole(s, node_id, role) ==
    IF node_id \in DOMAIN s.nodes
      THEN [ s EXCEPT !.nodes[node_id].role = role ]
      ELSE s

\* ClusterStateManager::remove_node
RemoveNode(s, node_id) ==
    [ s EXCEPT !.nodes = [ id \in DOMAIN s.nodes \ { node_id } |-> s.nodes[id] ] ]

\* ClusterStateManager::update_heartbeat
UpdateHeartbeat(s, node_id) ==
    IF node_id \in DOMAIN s.nodes
      THEN [ s EXCEPT !.nodes[node_id].last_heartbeat = Some(0),
                      !.nodes[node_id].is_alive = TRUE ]
      ELSE s

\* ClusterStateManager::mark_node_dead
MarkNodeDead(s, node_id) ==
    IF node_id \in DOMAIN s.nodes
      THEN [ s EXCEPT !.nodes[node_id].is_alive = FALSE ]
      ELSE s

\* ClusterStateManager::is_leader that answers yes on every node
IsLeader_Always(s, self) == TRUE

\* ClusterStateManager::is_leader
IsLeader(s, self) == s.leader_id = Some(self)

\* ClusterStateManager::get_alive_nodes
GetAliveNodes(s) == { id \in DOMAIN s.nodes : s.nodes[id].is_alive }

\* ClusterStateManager::get_quorum_size that counts every registered node
GetQuorumSize_Registered(s) == (Cardinality(DOMAIN s.nodes) \div 2) + 1

\* ClusterStateManager::get_quorum_size
GetQuorumSize(s) == (Cardinality(GetAliveNodes(s)) \div 2) + 1

\* the elements of a finite set of strings or numbers, one after another
RECURSIVE SetToSeq(_)
SetToSeq(S) ==
    IF S = {} THEN << >>
    ELSE LET x == CHOOSE y \in S : TRUE
         IN  << x >> \o SetToSeq(S \ { x })


(***************************************************************************)
(* Replication: cluster/replication.rs.  The operators work on the parts   *)
(* of a node the ReplicationManager holds: rs.s the ClusterState, and the  *)
(* next_index and match_index maps.                                        *)
(***************************************************************************)
\* ReplicationManager::send_replication_request: the answer is made up from
\* the sender's own record of the peer
SendReplicationRequest(s, node_id, request) ==
    IF node_id \in DOMAIN s.nodes
      THEN IF request.term >= s.nodes[node_id].term
             THEN [ ok |-> TRUE, term |-> request.term, success |-> TRUE,
                    match_index |-> request.prev_log_index + Len(request.entries) ]
             ELSE [ ok |-> TRUE, term |-> s.nodes[node_id].term, success |-> FALSE,
                    match_index |-> 0 ]
      ELSE [ ok |-> FALSE, term |-> 0, success |-> FALSE, match_index |-> 0 ]

\* ReplicationManager::replicate_to_node
ReplicateToNode(rs, self, node_id, entries) ==
    LET next_idx == MapGet(rs.next_index, node_id)
        request == [ term |-> rs.s.current_term, leader_id |-> self,
                     prev_log_index |-> SatSub(next_idx, 1), prev_log_term |-> 0,
                     entries |-> entries, leader_commit |-> rs.s.commit_index ]
    IN  Let(SendReplicationRequest(rs.s, node_id, request), LAMBDA response :
        IF ~response.ok
          THEN [ rs |-> rs, result |-> FALSE ]
          ELSE IF response.success
            THEN [ rs |-> [ rs EXCEPT
                       !.next_index = IF entries = << >> THEN rs.next_index
                                      ELSE MapPut(rs.next_index, node_id,
                                                  next_idx + Len(entries)),
                       !.match_index = MapPut(rs.match_index, node_id,
                                              response.match_index) ],
                   result |-> TRUE ]
            ELSE [ rs |-> [ rs EXCEPT !.next_index =
                                MapPut(rs.next_index, node_id, SatSub(next_idx, 1)) ],
                   result |-> FALSE ])

\* the loop of replicate_to_followers over the alive nodes
RECURSIVE ReplicateToNodes(_, _, _, _, _)
ReplicateToNodes(rs, self, node_ids, entries, success_count) ==
    IF node_ids = << >> THEN [ rs |-> rs, success_count |-> success_count ]
    ELSE IF Head(node_ids) = self
      THEN ReplicateToNodes(rs, self, Tail(node_ids), entries, success_count)
      ELSE Let(ReplicateToNode(rs, self, Head(node_ids), entries), LAMBDA r :
               ReplicateToNodes(r.rs, self, Tail(node_ids), entries,
                                IF r.result THEN success_count + 1 ELSE success_count))

\* the values of match_index, sorted
SortedIndices(match_indices) ==
    SortSeq([ i \in 1..Cardinality(DOMAIN match_indices) |->
                  match_indices[SetToSeq(DOMAIN match_indices)[i]] ],
            LAMBDA a, b : a < b)

\* ReplicationManager::update_commit_index.  The element taken is
\* indices[indices.len() - quorum_size + 1] in usize arithmetic: with
\* overflow checks the subtraction panics when it goes below zero, without
\* them it wraps and the sum comes back to the same number; the indexing
\* panics when the number is not below indices.len().
UpdateCommitIndex(s, match_indices, checks) ==
    Let(SortedIndices(match_indices), LAMBDA indices :
    LET quorum_size == GetQuorumSize(s)
        at == Len(indices) - quorum_size + 1
    IN  IF Len(indices) >= quorum_size - 1
          THEN IF (checks /\ Len(indices) < quorum_size) \/ at >= Len(indices)
                 THEN [ panic |-> TRUE, s |-> s ]
                 ELSE [ panic |-> FALSE, s |-> [ s EXCEPT !.commit_index = indices[at + 1] ] ]
          ELSE [ panic |-> FALSE, s |-> s ])

\* ReplicationManager::replicate_to_followers
ReplicateToFollowers(rs, self, entries, checks) ==
    IF ~IsLeader(rs.s, self) THEN [ outcome |-> "err", rs |-> rs ]
    ELSE Let(ReplicateToNodes(rs, self, SetToSeq(GetAliveNodes(rs.s)), entries, 0),
             LAMBDA r :
         LET quorum_size == GetQuorumSize(rs.s)
             success == r.success_count >= quorum_size - 1
         IN  IF ~success THEN [ outcome |-> "false", rs |-> r.rs ]
             ELSE Let(UpdateCommitIndex(r.rs.s, r.rs.match_index, checks), LAMBDA u :
                  IF u.panic THEN [ outcome |-> "panic", rs |-> r.rs ]
                  ELSE [ outcome |-> "true", rs |-> [ r.rs EXCEPT !.s = u.s ] ]))

\* the loop of handle_replication_request over the entries of the request
RECURSIVE ApplyEntries(_, _)
ApplyEntries(nl, entries) ==
    IF entries = << >> THEN [ ok |-> TRUE, nl |-> nl ]
    ELSE LET record == [ value |-> Head(entries).command, offset |-> Head(entries).index ]
         IN  Let(LogAppend(nl.log, nl.disk, record), LAMBDA a :
             Let([ log |-> a.log, disk |-> a.disk ], LAMBDA after :
                 IF a.ok THEN ApplyEntries(after, Tail(entries))
                 ELSE [ ok |-> FALSE, nl |-> after ]))

\* ReplicationManager::handle_replication_request without the comparison of
\* the request's term with current_term
HandleReplicationRequest_AnyTerm(s, nl, request) ==
    Let(ApplyEntries(nl, request.entries), LAMBDA a :
        IF ~a.ok
          THEN [ s |-> s, nl |-> a.nl,
                 response |-> [ term |-> s.current_term, success |-> FALSE,
                                match_index |-> 0 ] ]
          ELSE [ s |-> IF request.leader_commit > s.commit_index
                         THEN [ s EXCEPT !.commit_index =
                                    Min(request.leader_commit, s.last_applied) ]
                         ELSE s,
                 nl |-> a.nl,
                 response |-> [ term |-> s.current_term, success |-> TRUE,
                                match_index |-> request.prev_log_index
                                                + Len(request.entries) ] ])

\* ReplicationManager::handle_replication_request
HandleReplicationRequest(s, nl, request) ==
    IF request.term < s.current_term
      THEN [ s |-> s, nl |-> nl,
             response |-> [ term |-> s.current_term, success |-> FALSE, match_index |-> 0 ] ]
      ELSE Let(ApplyEntries(nl, request.entries), LAMBDA a :
               IF ~a.ok
                 THEN [ s |-> s, nl |-> a.nl,
                        response |-> [ term |-> s.current_term, success |-> FALSE,
                                       match_index |-> 0 ] ]
                 ELSE [ s |-> IF request.leader_commit > s.commit_index
                                THEN [ s EXCEPT !.commit_index =
                                           Min(request.leader_commit, s.last_applied) ]
                                ELSE s,
                        nl |-> a.nl,
                        response |-> [ term |-> s.current_term, success |-> TRUE,
                                       match_index |-> request.prev_log_index
                                                       + Len(request.entries) ] ])

\* ReplicationManager::append_entry that stores last_applied before it knows
\* the outcome of the local append
AppendEntry_AppliesFirst(rs, nl, self, command, checks) ==
    IF ~IsLeader(rs.s, self)
      THEN [ outcome |-> "NotLeader", offset |-> 0, index |-> 0, replicated |-> FALSE,
             rs |-> rs, nl |-> nl ]
      ELSE LET log_index == rs.s.last_applied + 1
               entry == [ term |-> rs.s.current_term, index |-> log_index,
                          command |-> command ]
               record == [ value |-> command, offset |-> log_index ]
               applied == [ rs EXCEPT !.s.last_applied = log_index ]
           IN  Let(LogAppend(nl.log, nl.disk, record), LAMBDA a :
               LET after == [ log |-> a.log, disk |-> a.disk ]
               IN  IF ~a.ok
                     THEN [ outcome |-> "AppendFailed", offset |-> 0, index |-> log_index,
                            replicated |-> FALSE, rs |-> applied, nl |-> after ]
                     ELSE Let(ReplicateToFollowers(applied, self, << entry >>, checks),
                              LAMBDA r :
                          [ outcome |-> IF r.outcome = "panic" THEN "panic" ELSE "ok",
                            offset |-> a.offset, index |-> log_index,
                            replicated |-> r.outcome = "true",
                            rs |-> r.rs, nl |-> after ]))

\* ReplicationManager::append_entry.  outcome is "ok" when Ok(offset) is
\* returned, "NotLeader" and "AppendFailed" for the two errors, "panic" when
\* update_commit_index panicked under it.
AppendEntry(rs, nl, self, command, checks) ==
    IF ~IsLeader(rs.s, self)
      THEN [ outcome |-> "NotLeader", offset |-> 0, index |-> 0, replicated |-> FALSE,
             rs |-> rs, nl |-> nl ]
      ELSE LET log_index == rs.s.last_applied + 1
               entry == [ term |-> rs.s.current_term, index |-> log_index,
                          command |-> command ]
               record == [ value |-> command, offset |-> log_index ]
               applied == [ rs EXCEPT !.s.last_applied = log_index ]
           IN  Let(LogAppend(nl.log, nl.disk, record), LAMBDA a :
               LET after == [ log |-> a.log, disk |-> a.disk ]
               IN  IF ~a.ok
                     THEN [ outcome |-> "AppendFailed", offset |-> 0, index |-> log_index,
                            replicated |-> FALSE, rs |-> rs, nl |-> after ]
                     ELSE Let(ReplicateToFollowers(applied, self, << entry >>, checks),
                              LAMBDA r :
                          [ outcome |-> IF r.outcome = "panic" THEN "panic" ELSE "ok",
                            offset |-> a.offset, index |-> log_index,
                            replicated |-> r.outcome = "true",
                            rs |-> r.rs, nl |-> after ]))

\* WalService::write
WalServiceWrite(rs, nl, self, data, checks) ==
    IF ~IsLeader(rs.s, self)
      THEN [ outcome |-> "NotLeader", offset |-> 0, index |-> 0, replicated |-> FALSE,
             rs |-> rs, nl |-> nl ]
      ELSE AppendEntry(rs, nl, self, data, checks)


(***************************************************************************)
(* Election: cluster/election.rs.                                          *)
(***************************************************************************)
\* LeaderElection::send_vote_request: the answer is made up from the
\* candidate's own record of the peer
SendVoteRequest(s, node_id, request) ==
    IF node_id \in DOMAIN s.nodes
      THEN IF request.term >= s.nodes[node_id].term
             THEN [ ok |-> TRUE, term |-> request.term, vote_granted |-> TRUE ]
             ELSE [ ok |-> TRUE, term |-> s.nodes[node_id].term, vote_granted |-> FALSE ]
      ELSE [ ok |-> FALSE, term |-> 0, vote_granted |-> FALSE ]

\* LeaderElection::request_votes
RequestVotes(s, self) ==
    LET request == [ term |-> s.current_term, candidate_id |-> self,
                     last_log_index |-> s.last_applied,
                     last_log_term |-> s.current_term ]
        granted == { node_id \in DOMAIN s.nodes \ { self } :
                       LET response == SendVoteRequest(s, node_id, request)
                       IN  response.ok /\ response.vote_granted }
    IN  1 + Cardinality(granted)

\* LeaderElection::become_leader
BecomeLeader(s, self) == SetRole(SetLeader(s, self), self, "Leader")

\* LeaderElection::become_follower
BecomeFollower(s, self) == SetRole(s, self, "Follower")

\* LeaderElection::send_heartbeats with send_heartbeat: every other
\* registered node whose recorded term is not above the leader's gets
\* update_heartbeat
SendHeartbeats(s, self) ==
    [ s EXCEPT !.nodes =
        [ node_id \in DOMAIN s.nodes |->
            IF node_id # self /\ s.current_term >= s.nodes[node_id].term
              THEN UpdateHeartbeat(s, node_id).nodes[node_id]
              ELSE s.nodes[node_id] ] ]

\* LeaderElection::handle_vote_request
HandleVoteRequest(s, request) ==
    IF request.term < s.current_term
      THEN [ s |-> s, response |-> [ term |-> s.current_term, vote_granted |-> FALSE ] ]
      ELSE LET state == IF request.term > s.current_term
                          THEN [ s EXCEPT !.current_term = request.term,
                                          !.voted_for = None, !.leader_id = None ]
                          ELSE s
               vote_granted == \/ state.voted_for = None
                               \/ state.voted_for = Some(request.candidate_id)
           IN  [ s |-> IF vote_granted
                         THEN [ state EXCEPT !.voted_for = Some(request.candidate_id) ]
                         ELSE s,
                 response |-> [ term |-> state.current_term,
                                vote_granted |-> vote_granted ] ]

\* LeaderElection::handle_heartbeat
HandleHeartbeat(s, heartbeat) ==
    IF heartbeat.term < s.current_term
      THEN [ s |-> s,
             response |-> [ term |-> s.current_term, success |-> FALSE, match_index |-> 0 ] ]
      ELSE LET state == IF heartbeat.term > s.current_term
                          THEN [ s EXCEPT !.current_term = heartbeat.term,
                                          !.voted_for = None ]
                          ELSE s
           IN  [ s |-> [ state EXCEPT !.leader_id = Some(heartbeat.leader_id) ],
                 response |-> [ term |-> state.current_term, success |-> TRUE,
                                match_index |-> state.last_applied ] ]


(***************************************************************************)
(* The cluster: three nodes, each with its own ClusterStateManager,        *)
(* ReplicationManager, LeaderElection and Log.  No code path carries a     *)
(* request from one node to another: the send_* functions answer from the  *)
(* sender's own state, and the handle_* functions are called by whoever    *)
(* holds the manager.                                                      *)
(***************************************************************************)
\* the Log configurations the nodes are started with: the defaults, and
\* limits small enough for rotation and a full index to happen
NodeConfigs ==
    { [ max_store_bytes |-> 0, max_index_bytes |-> 0, initial_offset |-> 0 ],
      [ max_store_bytes |-> 20, max_index_bytes |-> 18, initial_offset |-> 0 ] }

\* what each node has registered when it starts serving: itself alone, as
\* DiscoveryManager::start_discovery does, or every node of the cluster
Memberships == { "self", "all" }

\* the payloads written through the service
Commands == { << 1, 2 >> }

\* requests a caller of handle_replication_request may bring
ReplicationRequests ==
    [ term : { 0, MaxTerm }, prev_log_index : { 0 },
      entries : { << >>, << [ term |-> 0, index |-> 1, command |-> << 1, 2 >> ] >> },
      leader_commit : { 0, 2 } ]

\* requests a caller of handle_heartbeat may bring
HeartbeatRequests == [ term : 0..MaxTerm, leader_id : Node ]

\* requests a caller of handle_vote_request may bring
ElectionRequests ==
    [ term : 0..MaxTerm, candidate_id : Node,
      last_log_index : { 0, MaxWrites }, last_log_term : { 0, MaxTerm } ]

NoCret ==
    [ op |-> "none", node |-> "", outcome |-> "", offset |-> 0, index |-> 0,
      commit |-> 0, replicated |-> FALSE ]

\* the calls that can be in flight at once on one node
Tasks == { "k1", "k2" }

\* a call that has not started or has returned
NoTask ==
    [ pc |-> "idle", op |-> "none", node |-> "", request |-> None, snap |-> None,
      vterm |-> 0, offset |-> 0 ]

\* vote_term of node n once its state is s: cast tells that the step wrote a
\* new vote into voted_for, vterm is the value that goes with a vote the
\* step did not cast
VoteTermAfter(n, s, cast, vterm) ==
    [ vote_term EXCEPT ![n] = IF s.voted_for = None THEN 0
                              ELSE IF cast THEN s.current_term
                              ELSE vterm ]

InitCluster ==
    /\ cfg \in NodeConfigs
    /\ disk = << >>
    /\ log = None
    /\ ret = NoRet
    /\ appended = << >>
    /\ nappends = 0
    /\ reopened = FALSE
    /\ ConcIdle
    /\ \E membership \in Memberships :
           st = [ n \in Node |->
                    [ ClusterStateDefault EXCEPT !.nodes =
                        [ m \in (IF membership = "all" THEN Node ELSE { n }) |->
                              NodeInfoNew ] ] ]
    /\ next_index = [ n \in Node |-> EmptyMap ]
    /\ match_index = [ n \in Node |-> EmptyMap ]
    /\ nlog = [ n \in Node |-> NewLog(<< >>, cfg) ]
    /\ cret = NoCret
    /\ written = << >>
    /\ ncalls = [ writes |-> 0, requests |-> 0 ]
    /\ overflow_checks \in BOOLEAN
    /\ epc = [ n \in Node |-> "loop" ]
    /\ tasks = [ k \in Tasks |-> NoTask ]
    /\ vote_term = [ n \in Node |-> 0 ]
    /\ timers = [ n \in Node |-> [ loop |-> 0, service |-> 0 ] ]

\* the role the node has in its own cluster state
RoleOf(n) == st[n].nodes[n].role

\* start_election_loop, Follower, once should_start_election holds:
\* start_election up to increment_term
FollowerTimeout(n) ==
    /\ epc[n] = "loop"
    /\ n \in DOMAIN st[n].nodes
    /\ RoleOf(n) = "Follower"
    /\ st[n].current_term < MaxTerm
    /\ st' = [ st EXCEPT ![n] = IncrementTerm(st[n]) ]
    /\ vote_term' = VoteTermAfter(n, st'[n], FALSE, vote_term[n])
    /\ epc' = [ epc EXCEPT ![n] = "vote_for_self" ]
    /\ UNCHANGED << logVars, concVars, tasks, timers, next_index, match_index, nlog,
                    cret, written, ncalls, overflow_checks >>

\* start_election: voted_for becomes the node itself
VoteForSelf(n) ==
    /\ epc[n] = "vote_for_self"
    /\ st' = [ st EXCEPT ![n].voted_for = Some(n) ]
    /\ vote_term' = VoteTermAfter(n, st'[n], TRUE, vote_term[n])
    /\ epc' = [ epc EXCEPT ![n] = "set_candidate" ]
    /\ UNCHANGED << logVars, concVars, tasks, timers, next_index, match_index, nlog,
                    cret, written, ncalls, overflow_checks >>

\* start_election: the role becomes Candidate and the election_timer of the
\* object the loop runs on is set to now
SetCandidate(n) ==
    /\ epc[n] = "set_candidate"
    /\ st' = [ st EXCEPT ![n] = SetRole(st[n], n, "Candidate") ]
    /\ timers' = [ timers EXCEPT ![n].loop = 0 ]
    /\ epc' = [ epc EXCEPT ![n] = "loop" ]
    /\ UNCHANGED << logVars, concVars, tasks, vote_term, next_index, match_index, nlog,
                    cret, written, ncalls, overflow_checks >>

\* start_election_loop, Candidate: run_candidate_loop
RunCandidateLoop(n) ==
    /\ epc[n] = "loop"
    /\ n \in DOMAIN st[n].nodes
    /\ RoleOf(n) = "Candidate"
    /\ st' = [ st EXCEPT ![n] =
                 IF RequestVotes(st[n], n) >= GetQuorumSize(st[n])
                   THEN BecomeLeader(st[n], n)
                   ELSE BecomeFollower(st[n], n) ]
    /\ UNCHANGED << logVars, concVars, taskVars, next_index, match_index, nlog, cret,
                    written, ncalls, overflow_checks, epc >>

\* start_election_loop, Leader: run_leader_loop
RunLeaderLoop(n) ==
    /\ epc[n] = "loop"
    /\ n \in DOMAIN st[n].nodes
    /\ RoleOf(n) = "Leader"
    /\ st' = [ st EXCEPT ![n] = SendHeartbeats(st[n], n) ]
    /\ UNCHANGED << logVars, concVars, taskVars, next_index, match_index, nlog, cret,
                    written, ncalls, overflow_checks, epc >>

\* state_manager.mark_node_dead(m) on node n
MarkDead(n, m) ==
    /\ st' = [ st EXCEPT ![n] = MarkNodeDead(st[n], m) ]
    /\ UNCHANGED << logVars, concVars, taskVars, next_index, match_index, nlog, cret,
                    written, ncalls, overflow_checks, epc >>

\* service.write(data) on node n
WriteOp(n, data) ==
    /\ ncalls.writes < MaxWrites
    /\ \E r \in { WalServiceWrite([ s |-> st[n], next_index |-> next_index[n],
                                     match_index |-> match_index[n] ],
                                   nlog[n], n, data, overflow_checks) } :
           /\ st' = [ st EXCEPT ![n] = r.rs.s ]
           /\ next_index' = [ next_index EXCEPT ![n] = r.rs.next_index ]
           /\ match_index' = [ match_index EXCEPT ![n] = r.rs.match_index ]
           /\ nlog' = [ nlog EXCEPT ![n] = r.nl ]
           /\ cret' = [ NoCret EXCEPT !.op = "write", !.node = n,
                          !.outcome = r.outcome, !.offset = r.offset,
                          !.index = r.index, !.commit = r.rs.s.commit_index,
                          !.replicated = r.replicated ]
           /\ written' = IF r.outcome = "ok"
                           THEN Append(written, [ node |-> n, offset |-> r.offset,
                                                  index |-> r.index,
                                                  term |-> st[n].current_term ])
                           ELSE written
           /\ ncalls' = IF r.outcome = "NotLeader" THEN ncalls
                        ELSE [ ncalls EXCEPT !.writes = ncalls.writes + 1 ]
    /\ UNCHANGED << logVars, concVars, taskVars, overflow_checks, epc >>

\* replication.handle_replication_request(request) on node n
OnReplicationRequest(n, request) ==
    /\ ncalls.requests < MaxRequests
    /\ \E r \in { HandleReplicationRequest(st[n], nlog[n], request) } :
           /\ st' = [ st EXCEPT ![n] = r.s ]
           /\ nlog' = [ nlog EXCEPT ![n] = r.nl ]
           /\ cret' = [ NoCret EXCEPT !.op = "replicate", !.node = n,
                          !.outcome = IF r.response.success THEN "ok" ELSE "rejected",
                          !.index = r.response.match_index,
                          !.commit = r.s.commit_index ]
    /\ ncalls' = [ ncalls EXCEPT !.requests = ncalls.requests + 1 ]
    /\ UNCHANGED << logVars, concVars, taskVars, next_index, match_index, written,
                    overflow_checks, epc >>

\* election.handle_heartbeat(heartbeat) on node n
OnHeartbeat(n, heartbeat) ==
    /\ ncalls.requests < MaxRequests
    /\ \E r \in { HandleHeartbeat(st[n], heartbeat) } :
           /\ st' = [ st EXCEPT ![n] = r.s ]
           /\ vote_term' = VoteTermAfter(n, r.s, FALSE, vote_term[n])
           /\ timers' = IF r.response.success
                          THEN [ timers EXCEPT ![n].service = 0 ]
                          ELSE timers
           /\ cret' = [ NoCret EXCEPT !.op = "heartbeat", !.node = n,
                          !.outcome = IF r.response.success THEN "ok" ELSE "rejected" ]
    /\ ncalls' = [ ncalls EXCEPT !.requests = ncalls.requests + 1 ]
    /\ UNCHANGED << logVars, concVars, tasks, next_index, match_index, nlog, written,
                    overflow_checks, epc >>

\* election.handle_vote_request(request) on node n
OnVoteRequest(n, request) ==
    /\ ncalls.requests < MaxRequests
    /\ \E r \in { HandleVoteRequest(st[n], request) } :
           /\ st' = [ st EXCEPT ![n] = r.s ]
           /\ vote_term' = VoteTermAfter(n, r.s, r.response.vote_granted, vote_term[n])
           /\ cret' = [ NoCret EXCEPT !.op = "vote", !.node = n,
                          !.outcome = IF r.response.vote_granted THEN "ok" ELSE "rejected" ]
    /\ ncalls' = [ ncalls EXCEPT !.requests = ncalls.requests + 1 ]
    /\ UNCHANGED << logVars, concVars, tasks, timers, next_index, match_index, nlog,
                    written, overflow_checks, epc >>

\* the node that is elected and written to in the replication behaviours
Writers == { "n1" }

NextRepl ==
    \/ \E n \in Writers : FollowerTimeout(n)
    \/ \E n \in Writers : VoteForSelf(n)
    \/ \E n \in Writers : SetCandidate(n)
    \/ \E n \in Writers : RunCandidateLoop(n)
    \/ \E n \in Writers : RunLeaderLoop(n)
    \/ \E n \in Writers : \E m \in Node \ { n } : MarkDead(n, m)
    \/ \E n \in Node, data \in Commands : WriteOp(n, data)
    \/ \E n \in Node \ Writers, request \in ReplicationRequests :
           OnReplicationRequest(n, request)
    \/ \E n \in Writers, heartbeat \in HeartbeatRequests :
           heartbeat.leader_id # n /\ OnHeartbeat(n, heartbeat)

SpecRepl == InitCluster /\ [][NextRepl]_vars

\* the election behaviours start from one Log configuration and one build
InitElect ==
    /\ InitCluster
    /\ cfg.max_store_bytes = 0
    /\ ~overflow_checks

NextElect ==
    \/ \E n \in Node : FollowerTimeout(n)
    \/ \E n \in Node : VoteForSelf(n)
    \/ \E n \in Node : SetCandidate(n)
    \/ \E n \in Node : RunCandidateLoop(n)
    \/ \E n \in Node : RunLeaderLoop(n)
    \/ \E n \in Node, request \in ElectionRequests : OnVoteRequest(n, request)
    \/ \E n \in Node, heartbeat \in HeartbeatRequests : OnHeartbeat(n, heartbeat)

SpecElect == InitElect /\ [][NextElect]_vars


(***************************************************************************)
(* Properties of the cluster layer.                                        *)
(***************************************************************************)
\* C6: a write on a node whose leader_id is not its own id fails with the
\* not-leader error and changes nothing: the node's log and directory, its
\* last_applied and commit_index with the rest of its cluster state, and its
\* next_index and match_index are what they were.
C6_NonLeaderWriteFails ==
    [][\A n \in Node, data \in Commands :
          (st[n].leader_id # Some(n) /\ WriteOp(n, data)) =>
              /\ cret'.outcome = "NotLeader"
              /\ nlog' = nlog
              /\ st' = st
              /\ next_index' = next_index
              /\ match_index' = match_index]_vars

\* a node that led and wrote, and then took a heartbeat from another leader,
\* has just refused a write
C6_Witness ==
    /\ cret.op = "write"
    /\ cret.outcome = "NotLeader"
    /\ cret.node \in Node
    /\ st[cret.node].last_applied > 0
    /\ IsSome(st[cret.node].leader_id)

\* the first offset of a log and the offset after its last record
LogStart(lg) ==
    IF IsSome(lg.active_segment) THEN FirstSegment(lg).base_offset
    ELSE lg.config.initial_offset

LogEnd(lg) ==
    IF IsSome(lg.active_segment) THEN Unwrap(lg.active_segment).next_offset
    ELSE lg.config.initial_offset

\* the records of a node's log, in offset order, as Log::read returns them
LogContents(nl) ==
    [ i \in 1..(LogEnd(nl.log) - LogStart(nl.log)) |->
          LogRead(nl.log, nl.disk, LogStart(nl.log) + i - 1).record ]

\* C7: whenever a write on the leader returns an offset, replication of the
\* entry reached a quorum and commit_index is at least the entry's index.
C7_ReturnsAfterCommit ==
    (cret.op = "write" /\ cret.outcome = "ok") =>
        cret.replicated /\ cret.commit >= cret.index

\* the node's own role is Leader and its leader_id is its own id
ConsidersItselfLeader(n) ==
    /\ n \in DOMAIN st[n].nodes
    /\ RoleOf(n) = "Leader"
    /\ IsLeader(st[n], n)

\* C8: in a cluster whose nodes have each registered every node and run the
\* election loop, no two distinct nodes consider themselves Leader while
\* they hold the same current_term.
C8_OneLeaderPerTerm ==
    (\A n \in Node : DOMAIN st[n].nodes = Node) =>
        \A n, m \in Node :
            (n # m /\ ConsidersItselfLeader(n) /\ ConsidersItselfLeader(m)) =>
                st[n].current_term # st[m].current_term

\* majority of the cluster
ClusterQuorum == (Cardinality(Node) \div 2) + 1

\* C9: for every value N > 0 the commit_index of a leader takes, at least a
\* quorum of the nodes, the leader included, have last_applied >= N.
C9_CommittedOnQuorum ==
    \A n \in Node :
        (IsLeader(st[n], n) /\ st[n].commit_index > 0) =>
            Cardinality({ m \in Node : st[m].last_applied >= st[n].commit_index })
                >= ClusterQuorum

\* the followers node n holds dead
DeadFollowers(n) == { m \in DOMAIN st[n].nodes \ { n } : ~st[n].nodes[m].is_alive }

\* C10: in a cluster of three with n1 as leader, a write on the leader whose
\* local append goes through returns an offset while exactly one follower is
\* dead, and while both followers are dead it returns no offset and leaves
\* commit_index where it was.
C10_WritesNeedOneFollower ==
    [][\A data \in Commands :
          ( /\ IsLeader(st["n1"], "n1")
            /\ DOMAIN st["n1"].nodes = Node
            /\ st["n1"].nodes["n1"].is_alive
            /\ WriteOp("n1", data) ) =>
              /\ (Cardinality(DeadFollowers("n1")) = 1 /\ cret'.outcome # "AppendFailed")
                     => cret'.outcome = "ok"
              /\ Cardinality(DeadFollowers("n1")) = 2
                     => /\ cret'.outcome # "ok"
                        /\ st'["n1"].commit_index = st["n1"].commit_index]_vars


(***************************************************************************)
(* Calls that run at the same time on one node.  The managers are Clone    *)
(* and shared through Arc, the runtime of main is multi-threaded, and the  *)
(* functions below take the state lock once to read (get_state) and once   *)
(* more for every write (update_state); the Log is locked for the local    *)
(* append alone.  Each lock acquisition is one step.                       *)
(***************************************************************************)
\* the entry append_entry builds from its copy of the state
EntryOf(task) ==
    [ term |-> Unwrap(task.snap).current_term,
      index |-> Unwrap(task.snap).last_applied + 1,
      command |-> Unwrap(task.request) ]

\* service.write(data) on node n, up to the get_state of append_entry
AppendEntryBegin(k, n, command) ==
    /\ tasks[k].pc = "idle"
    /\ ncalls.writes < MaxWrites
    /\ IF ~IsLeader(st[n], n)
         THEN /\ cret' = [ NoCret EXCEPT !.op = "write", !.node = n,
                                         !.outcome = "NotLeader" ]
              /\ UNCHANGED << tasks, ncalls >>
         ELSE /\ tasks' = [ tasks EXCEPT ![k] =
                              [ NoTask EXCEPT !.pc = "append", !.op = "append_entry",
                                              !.node = n, !.request = Some(command),
                                              !.snap = Some(st[n]) ] ]
              /\ ncalls' = [ ncalls EXCEPT !.writes = ncalls.writes + 1 ]
              /\ UNCHANGED cret
    /\ UNCHANGED << logVars, concVars, st, next_index, match_index, nlog, written,
                    overflow_checks, epc, vote_term, timers >>

\* append_entry: the record goes into the local log under the log's mutex
AppendEntryLocal(k) ==
    /\ tasks[k].pc = "append"
    /\ LET n == tasks[k].node
           entry == EntryOf(tasks[k])
           record == [ value |-> entry.command, offset |-> entry.index ]
       IN  \E a \in { LogAppend(nlog[n].log, nlog[n].disk, record) } :
               /\ nlog' = [ nlog EXCEPT ![n] = [ log |-> a.log, disk |-> a.disk ] ]
               /\ IF a.ok
                    THEN /\ tasks' = [ tasks EXCEPT ![k].pc = "applied",
                                                    ![k].offset = a.offset ]
                         /\ UNCHANGED cret
                    ELSE /\ tasks' = [ tasks EXCEPT ![k] = NoTask ]
                         /\ cret' = [ NoCret EXCEPT !.op = "write", !.node = n,
                                                    !.outcome = "AppendFailed",
                                                    !.index = entry.index ]
    /\ UNCHANGED << logVars, concVars, st, next_index, match_index, written, ncalls,
                    overflow_checks, epc, vote_term, timers >>

\* append_entry: update_state(last_applied = log_index)
AppendEntryApplied(k) ==
    /\ tasks[k].pc = "applied"
    /\ st' = [ st EXCEPT ![tasks[k].node].last_applied = EntryOf(tasks[k]).index ]
    /\ tasks' = [ tasks EXCEPT ![k].pc = "replicate" ]
    /\ UNCHANGED << logVars, concVars, next_index, match_index, nlog, cret, written,
                    ncalls, overflow_checks, epc, vote_term, timers >>

\* append_entry: replicate_to_followers, then Ok(offset)
AppendEntryReplicate(k) ==
    /\ tasks[k].pc = "replicate"
    /\ LET n == tasks[k].node
           entry == EntryOf(tasks[k])
       IN  \E r \in { ReplicateToFollowers([ s |-> st[n], next_index |-> next_index[n],
                                              match_index |-> match_index[n] ],
                                            n, << entry >>, overflow_checks) } :
               /\ st' = [ st EXCEPT ![n] = r.rs.s ]
               /\ next_index' = [ next_index EXCEPT ![n] = r.rs.next_index ]
               /\ match_index' = [ match_index EXCEPT ![n] = r.rs.match_index ]
               /\ cret' = [ NoCret EXCEPT !.op = "write", !.node = n,
                              !.outcome = IF r.outcome = "panic" THEN "panic" ELSE "ok",
                              !.offset = tasks[k].offset, !.index = entry.index,
                              !.commit = r.rs.s.commit_index,
                              !.replicated = r.outcome = "true" ]
               /\ written' = IF r.outcome # "panic"
                               THEN Append(written, [ node |-> n, offset |-> tasks[k].offset,
                                                      index |-> entry.index,
                                                      term |-> entry.term ])
                               ELSE written
    /\ tasks' = [ tasks EXCEPT ![k] = NoTask ]
    /\ UNCHANGED << logVars, concVars, nlog, ncalls, overflow_checks, epc, vote_term, timers >>

\* number of handler calls made on one node in the interleaved behaviours
MaxCalls == 2

\* the vote and heartbeat requests a caller of the handlers may bring,
\* for, or from, the node itself or one other node; the candidates have
\* an empty log
HandlerCalls ==
    { [ op |-> "vote", request |-> r ] :
          r \in { q \in ElectionRequests : /\ q.candidate_id \in { "n1", "n2" }
                                           /\ q.last_log_index = 0
                                           /\ q.last_log_term = 0 } }
        \cup { [ op |-> "heartbeat", request |-> r ] :
                   r \in { q \in HeartbeatRequests : q.leader_id \in { "n1", "n2" } } }

\* handle_vote_request / handle_heartbeat on node n: get_state
HandlerBegin(k, n, op, request) ==
    /\ tasks[k].pc = "idle"
    /\ ncalls.requests < MaxCalls
    /\ tasks' = [ tasks EXCEPT ![k] =
                    [ NoTask EXCEPT !.pc = "update", !.op = op, !.node = n,
                                    !.request = Some(request), !.snap = Some(st[n]),
                                    !.vterm = vote_term[n] ] ]
    /\ ncalls' = [ ncalls EXCEPT !.requests = ncalls.requests + 1 ]
    /\ UNCHANGED << logVars, concVars, st, next_index, match_index, nlog, cret,
                    written, overflow_checks, epc, vote_term, timers >>

\* update_state of the handlers: current_term, voted_for and leader_id of
\* the state take the values worked out on the handler's copy
WriteBack(s, state) ==
    [ s EXCEPT !.current_term = state.current_term,
               !.voted_for = state.voted_for,
               !.leader_id = state.leader_id ]

\* handle_vote_request / handle_heartbeat: from the copy of the state to the
\* response, with the update_state on the way when the code reaches it
HandlerEnd(k) ==
    /\ tasks[k].pc = "update"
    /\ LET n == tasks[k].node
           vote == tasks[k].op = "vote"
       IN  \E r \in { IF vote
                        THEN HandleVoteRequest(Unwrap(tasks[k].snap), Unwrap(tasks[k].request))
                        ELSE HandleHeartbeat(Unwrap(tasks[k].snap), Unwrap(tasks[k].request)) } :
             \E updates \in { IF vote THEN r.response.vote_granted ELSE r.response.success } :
               /\ st' = [ st EXCEPT ![n] = IF updates THEN WriteBack(st[n], r.s) ELSE st[n] ]
               /\ vote_term' = IF updates
                                 THEN VoteTermAfter(n, r.s, vote, tasks[k].vterm)
                                 ELSE vote_term
               /\ timers' = IF updates /\ ~vote
                              THEN [ timers EXCEPT ![n].service = 0 ]
                              ELSE timers
               /\ cret' = [ NoCret EXCEPT !.op = tasks[k].op, !.node = n,
                              !.outcome = IF updates THEN "ok" ELSE "rejected" ]
    /\ tasks' = [ tasks EXCEPT ![k] = NoTask ]
    /\ UNCHANGED << logVars, concVars, next_index, match_index, nlog, written, ncalls,
                    overflow_checks, epc >>

NextHandlers ==
    \/ \E n \in Writers : FollowerTimeout(n)
    \/ \E n \in Writers : VoteForSelf(n)
    \/ \E n \in Writers : SetCandidate(n)
    \/ \E n \in Writers : RunCandidateLoop(n)
    \/ \E n \in Writers : RunLeaderLoop(n)
    \/ \E k \in Tasks, n \in Writers, call \in HandlerCalls :
           HandlerBegin(k, n, call.op, call.request)
    \/ \E k \in Tasks : HandlerEnd(k)

\* the interleaved behaviours start with every node registered on every node
InitHandlers ==
    /\ InitElect
    /\ \A n \in Node : DOMAIN st[n].nodes = Node

SpecHandlers == InitHandlers /\ [][NextHandlers]_vars

NextWriters ==
    \/ \E n \in Writers : FollowerTimeout(n)
    \/ \E n \in Writers : VoteForSelf(n)
    \/ \E n \in Writers : SetCandidate(n)
    \/ \E n \in Writers : RunCandidateLoop(n)
    \/ \E n \in Writers : RunLeaderLoop(n)
    \/ \E k \in Tasks, n \in Writers, data \in Commands : AppendEntryBegin(k, n, data)
    \/ \E k \in Tasks : AppendEntryLocal(k)
    \/ \E k \in Tasks : AppendEntryApplied(k)
    \/ \E k \in Tasks : AppendEntryReplicate(k)

SpecWriters == InitCluster /\ [][NextWriters]_vars

\* replication.handle_replication_request(request) on node n, by a leader
\* that keeps the request to send it again
Deliver(k, n, request) ==
    /\ tasks[k].pc = "idle"
    /\ ncalls.requests < MaxRequests
    /\ \E r \in { HandleReplicationRequest(st[n], nlog[n], request) } :
           /\ st' = [ st EXCEPT ![n] = r.s ]
           /\ nlog' = [ nlog EXCEPT ![n] = r.nl ]
           /\ cret' = [ NoCret EXCEPT !.op = "replicate", !.node = n,
                          !.outcome = IF r.response.success THEN "ok" ELSE "rejected",
                          !.index = r.response.match_index,
                          !.commit = r.s.commit_index ]
           /\ tasks' = [ tasks EXCEPT ![k] =
                           IF r.response.success
                             THEN [ NoTask EXCEPT !.pc = "delivered", !.op = "replicate",
                                                  !.node = n, !.request = Some(request) ]
                             ELSE NoTask ]
    /\ ncalls' = [ ncalls EXCEPT !.requests = ncalls.requests + 1 ]
    /\ UNCHANGED << logVars, concVars, next_index, match_index, written,
                    overflow_checks, epc, vote_term, timers >>

\* the request a node has answered with success is delivered to it again
Redeliver(k) ==
    /\ tasks[k].pc = "delivered"
    /\ LET n == tasks[k].node
       IN  \E r \in { HandleReplicationRequest(st[n], nlog[n], Unwrap(tasks[k].request)) } :
               /\ st' = [ st EXCEPT ![n] = r.s ]
               /\ nlog' = [ nlog EXCEPT ![n] = r.nl ]
               /\ cret' = [ NoCret EXCEPT !.op = "redeliver", !.node = n,
                              !.outcome = IF r.response.success THEN "ok" ELSE "rejected",
                              !.index = r.response.match_index,
                              !.commit = r.s.commit_index ]
    /\ tasks' = [ tasks EXCEPT ![k] = NoTask ]
    /\ UNCHANGED << logVars, concVars, next_index, match_index, written, ncalls,
                    overflow_checks, epc, vote_term, timers >>

NextRedeliver ==
    \/ \E k \in Tasks, n \in Node \ Writers, request \in ReplicationRequests :
           Deliver(k, n, request)
    \/ \E k \in Tasks : Redeliver(k)

SpecRedeliver == InitCluster /\ [][NextRedeliver]_vars

\* the process of a node that leads stops: its election loop takes no more
\* steps and it serves no more calls
Stop(n) ==
    /\ epc[n] = "loop"
    /\ n \in DOMAIN st[n].nodes
    /\ RoleOf(n) = "Leader"
    /\ \A m \in Node : epc[m] # "stopped"
    /\ epc' = [ epc EXCEPT ![n] = "stopped" ]
    /\ UNCHANGED << logVars, concVars, taskVars, st, next_index, match_index, nlog,
                    cret, written, ncalls, overflow_checks >>

\* service.write(data) on a node whose process runs
ServeWrite(n, data) ==
    /\ epc[n] # "stopped"
    /\ WriteOp(n, data)

NextFailover ==
    \/ \E n \in Node : FollowerTimeout(n)
    \/ \E n \in Node : VoteForSelf(n)
    \/ \E n \in Node : SetCandidate(n)
    \/ \E n \in Node : RunCandidateLoop(n)
    \/ \E n \in Node : RunLeaderLoop(n)
    \/ \E n \in Writers, data \in Commands : ServeWrite(n, data)
    \/ \E n \in Writers : Stop(n)

SpecFailover == InitCluster /\ [][NextFailover]_vars

\* C11: once the concurrent append_entry calls on the leader of a cluster
\* whose nodes are all registered have returned, the entries that got an
\* offset carry the distinct indices 1..n, each index is the position of its
\* record in the local log (the record at offset 0 is the first), and
\* last_applied has advanced by n.
C11_SerializedAppends ==
    ( /\ \A k \in Tasks : tasks[k].pc = "idle"
      /\ \A n \in Writers : DOMAIN st[n].nodes = Node ) =>
        \A n \in Writers :
            /\ { written[i].index : i \in 1..Len(written) } = 1..Len(written)
            /\ \A i \in 1..Len(written) : written[i].index = written[i].offset + 1
            /\ st[n].last_applied = Len(written)

\* C12: delivering to a follower, once more, the replication request it has
\* just answered with success leaves the follower's log as it was: the same
\* number of records with the same contents, each entry held once.
C12_RedeliveryIsNoOp ==
    [][\A k \in Tasks :
          Redeliver(k) =>
              LogContents(nlog'[tasks[k].node]) = LogContents(nlog[tasks[k].node])]_vars

\* C13: no step of the election loop or of a vote or heartbeat handler, in
\* any interleaving of them on one node, lowers the node's current_term.
C13_TermNeverDecreases ==
    [][\A n \in Node : st'[n].current_term >= st[n].current_term]_vars

\* C14: whenever a node's voted_for holds a vote, the vote was cast while the
\* node was in its present current_term: a step that raises current_term
\* leaves voted_for None or holding a vote cast in that step for the new term.
C14_VoteOfCurrentTerm ==
    \A n \in Node :
        st[n].voted_for # None => vote_term[n] = st[n].current_term

\* a node that voted for itself in term 1 and leads has just granted its
\* vote to another node in a request of a higher term
C14_Witness ==
    /\ cret.op = "vote"
    /\ cret.outcome = "ok"
    /\ RoleOf("n1") = "Leader"
    /\ st["n1"].current_term > 1
    /\ st["n1"].voted_for = Some("n2")
    /\ vote_term["n1"] = st["n1"].current_term

\* C15: once the leader has stopped, a remaining node that becomes leader
\* has last_applied at or above the commit_index the stopped leader had
\* reached.
C15_NewLeaderUpToDate ==
    [][\A n \in Node : \A m \in Node \ { n } :
          ( /\ epc[n] = "stopped"
            /\ ~ConsidersItselfLeader(m)
            /\ ConsidersItselfLeader(m)' ) =>
              st'[m].last_applied >= st[n].commit_index]_vars

\* the local append that append_entry on node n would make for data fails
LocalAppendFails(n, data) ==
    ~LogAppend(nlog[n].log, nlog[n].disk,
               [ value |-> data, offset |-> st[n].last_applied + 1 ]).ok

\* C19: a write on the leader whose local Log::append fails returns the
\* append error and leaves last_applied, commit_index and the rest of the
\* cluster state as they were, and next_index and match_index too: nothing
\* went to a follower.
C19_FailedAppendNotCommitted ==
    [][\A n \in Node, data \in Commands :
          ( /\ IsLeader(st[n], n)
            /\ LocalAppendFails(n, data)
            /\ WriteOp(n, data) ) =>
              /\ cret'.outcome = "AppendFailed"
              /\ st'[n].last_applied = st[n].last_applied
              /\ st'[n].commit_index = st[n].commit_index
              /\ st' = st
              /\ next_index' = next_index
              /\ match_index' = match_index]_vars

\* the leader, after a write that went through, has just failed a write on
\* a full index
C19_Witness ==
    /\ cret.op = "write"
    /\ cret.outcome = "AppendFailed"
    /\ cret.node \in Node
    /\ IsLeader(st[cret.node], cret.node)
    /\ Len(written) >= 1
    /\ st[cret.node].last_applied = 1
    /\ cret.index = 2

\* C20: the index of the entry a write created is the offset the local log
\* gave its record, the value the write returned.
C20_IndexIsOffset ==
    (cret.op = "write" /\ cret.outcome = "ok") => cret.index = cret.offset

\* C21: a node casts at most one vote per term.  In any interleaving of
\* start_election with handle_vote_request calls on the node, a step that
\* replaces the vote held in voted_for by a vote for another node casts the
\* new vote in a term other than the one the old vote was cast in.
C21_OneVotePerTerm ==
    [][\A n \in Node :
          ( /\ st[n].voted_for # None
            /\ st'[n].voted_for # None
            /\ st'[n].voted_for # st[n].voted_for ) =>
              vote_term'[n] # vote_term[n]]_vars

(***************************************************************************)
(* The three handlers on a node that runs its election loop and serves     *)
(* writes: the requests reach it in any role, with any log.                *)
(***************************************************************************)
\* replication requests whose entry does not follow an empty log
GapRequests ==
    [ term : { 0, MaxTerm }, prev_log_index : { 1 },
      entries : { << [ term |-> 0, index |-> 2, command |-> << 1, 2 >> ] >> },
      leader_commit : { 0 } ]

\* handle_vote_request for the request of another node
PeerVoteRequest(n, request) ==
    /\ request.candidate_id # n
    /\ OnVoteRequest(n, request)

\* handle_heartbeat for the heartbeat of another node
PeerHeartbeat(n, heartbeat) ==
    /\ heartbeat.leader_id # n
    /\ OnHeartbeat(n, heartbeat)

NextRpc ==
    \/ \E n \in Writers : FollowerTimeout(n)
    \/ \E n \in Writers : VoteForSelf(n)
    \/ \E n \in Writers : SetCandidate(n)
    \/ \E n \in Writers : RunCandidateLoop(n)
    \/ \E n \in Writers : RunLeaderLoop(n)
    \/ \E n \in Writers, data \in Commands : WriteOp(n, data)
    \/ \E n \in Writers, request \in ElectionRequests : PeerVoteRequest(n, request)
    \/ \E n \in Writers, heartbeat \in HeartbeatRequests : PeerHeartbeat(n, heartbeat)
    \/ \E n \in Writers, request \in ReplicationRequests \cup GapRequests :
           OnReplicationRequest(n, request)

SpecRpc == InitCluster /\ [][NextRpc]_vars

\* the writes of node n that returned an offset
WrittenBy(n) == SelectSeq(written, LAMBDA w : w.node = n)

\* the index and the term of the last entry of node n, whose log holds the
\* entries of its own writes
LastEntry(n) ==
    LET own == WrittenBy(n)
    IN  IF own = << >> THEN [ index |-> 0, term |-> 0 ]
        ELSE [ index |-> own[Len(own)].index, term |-> own[Len(own)].term ]

\* the log the vote request tells of is behind the log of node n
LogBehind(request, n) ==
    \/ request.last_log_term < LastEntry(n).term
    \/ /\ request.last_log_term = LastEntry(n).term
       /\ request.last_log_index < LastEntry(n).index

\* C22: handle_vote_request on a node whose log holds the entries of its own
\* writes never grants a request whose last_log_term is below the term of
\* the node's last entry, or equal to it with last_log_index below the index
\* of the node's last entry.
C22_VoteNeedsUpToDateLog ==
    [][\A n \in Node, request \in ElectionRequests :
          ( /\ Len(LogContents(nlog[n])) = Len(WrittenBy(n))
            /\ LogBehind(request, n)
            /\ OnVoteRequest(n, request) ) =>
              cret'.outcome = "rejected"]_vars

\* node n has stepped down into the given term
SteppedDown(n, term) ==
    /\ st[n].current_term = term
    /\ RoleOf(n) = "Follower"
    /\ ~ConsidersItselfLeader(n)

\* C23: a vote request, a heartbeat or a replication request whose term is
\* above the receiver's current_term leaves the receiver stepped down: its
\* current_term is the term of the request, its own role is Follower and it
\* does not consider itself leader.
C23_HigherTermStepsDown ==
    [][\A n \in Node :
          /\ \A request \in ElectionRequests :
                 (request.term > st[n].current_term /\ OnVoteRequest(n, request))
                     => SteppedDown(n, request.term)'
          /\ \A heartbeat \in HeartbeatRequests :
                 (heartbeat.term > st[n].current_term /\ OnHeartbeat(n, heartbeat))
                     => SteppedDown(n, heartbeat.term)'
          /\ \A request \in ReplicationRequests \cup GapRequests :
                 (request.term > st[n].current_term /\ OnReplicationRequest(n, request))
                     => SteppedDown(n, request.term)']_vars

\* the step leaves the cluster state and the log of node n as they were
Untouched(n) ==
    /\ st'[n] = st[n]
    /\ nlog'[n] = nlog[n]

\* C24: a vote request, a heartbeat or a replication request whose term is
\* below the receiver's current_term is rejected, the reply carries the
\* receiver's current_term, and the receiver's term, voted_for, leader_id,
\* commit_index, the rest of its cluster state and its log stay as they were.
\* (The step of a handler on node n records the handler and n in cret.)
C24_StaleTermRejected ==
    [][\A n \in Node :
          /\ (cret'.op = "vote" /\ cret'.node = n) =>
                 \A request \in ElectionRequests :
                     (request.term < st[n].current_term /\ OnVoteRequest(n, request)) =>
                         /\ cret'.outcome = "rejected"
                         /\ HandleVoteRequest(st[n], request).response =
                                [ term |-> st[n].current_term, vote_granted |-> FALSE ]
                         /\ Untouched(n)
          /\ (cret'.op = "heartbeat" /\ cret'.node = n) =>
                 \A heartbeat \in HeartbeatRequests :
                     (heartbeat.term < st[n].current_term /\ OnHeartbeat(n, heartbeat)) =>
                         /\ cret'.outcome = "rejected"
                         /\ LET response == HandleHeartbeat(st[n], heartbeat).response
                            IN  response.term = st[n].current_term /\ ~response.success
                         /\ Untouched(n)
          /\ (cret'.op = "replicate" /\ cret'.node = n) =>
                 \A request \in ReplicationRequests \cup GapRequests :
                     (request.term < st[n].current_term
                          /\ OnReplicationRequest(n, request)) =>
                         /\ cret'.outcome = "rejected"
                         /\ LET response ==
                                    HandleReplicationRequest(st[n], nlog[n], request).response
                            IN  response.term = st[n].current_term /\ ~response.success
                         /\ Untouched(n)]_vars

\* a leader that has served a write has just rejected a replication request
\* of a term below its own, on a log whose index has room
C24_Witness ==
    /\ cret.op = "replicate"
    /\ cret.outcome = "rejected"
    /\ cret.node \in Node
    /\ cfg.max_index_bytes = 0
    /\ IsLeader(st[cret.node], cret.node)
    /\ st[cret.node].current_term >= 1
    /\ Len(written) >= 1

(***************************************************************************)
(* Time.  start_election_loop borrows its LeaderElection mutably for as    *)
(* long as it runs, and WalService::start runs it on a clone, so the       *)
(* object handle_heartbeat is called on is never the one the loop runs on: *)
(* each has its own election_timer.                                        *)
(***************************************************************************)
\* election_timeout, in ticks
ElectionTimeout == 3

\* the longest time the model tells apart: one tick more than the
\* 3 x election_timeout of check_node_health
MaxElapsed == 3 * ElectionTimeout + 1

\* the state of a node one tick later: every last_heartbeat is one tick
\* older
Elapse(s) ==
    [ s EXCEPT !.nodes =
        [ id \in DOMAIN s.nodes |->
            IF IsSome(s.nodes[id].last_heartbeat)
              THEN [ s.nodes[id] EXCEPT !.last_heartbeat =
                         Some(Min(Unwrap(s.nodes[id].last_heartbeat) + 1, MaxElapsed)) ]
              ELSE s.nodes[id] ] ]

\* one tick passes on every node
Sleep ==
    /\ timers' = [ n \in Node |->
                     [ loop |-> Min(timers[n].loop + 1, ElectionTimeout),
                       service |-> Min(timers[n].service + 1, ElectionTimeout) ] ]
    /\ st' = [ n \in Node |-> Elapse(st[n]) ]
    /\ UNCHANGED << logVars, concVars, tasks, vote_term, next_index, match_index, nlog,
                    cret, written, ncalls, overflow_checks, epc >>

\* one tick passes; valid heartbeats reach the nodes at intervals shorter
\* than election_timeout, so the tick that would make a node's last one as
\* old as election_timeout does not come before the next one
Tick ==
    /\ \A n \in Writers : timers[n].service + 1 < ElectionTimeout
    /\ Sleep

\* run_follower_loop: should_start_election holds for the election_timer of
\* the object the loop runs on
ElectionDue(n) ==
    /\ timers[n].loop >= ElectionTimeout
    /\ FollowerTimeout(n)

NextTimed ==
    \/ Tick
    \/ \E n \in Writers : ElectionDue(n)
    \/ \E n \in Writers : VoteForSelf(n)
    \/ \E n \in Writers : SetCandidate(n)
    \/ \E n \in Writers : RunCandidateLoop(n)
    \/ \E n \in Writers : RunLeaderLoop(n)
    \/ \E n \in Writers, heartbeat \in HeartbeatRequests : PeerHeartbeat(n, heartbeat)

SpecTimed == InitElect /\ [][NextTimed]_vars

\* C25: a node that runs the election loop and gets valid heartbeats at
\* intervals shorter than election_timeout never becomes Candidate.
C25_HeartbeatsHoldElection ==
    \A n \in Writers : RoleOf(n) # "Candidate"

\* the index of the last entry of node n's log: the number of its records
LastIndex(n) == Len(LogContents(nlog[n]))

\* C26: a replication request whose first entry's index is not exactly one
\* past the index of the receiver's last entry is rejected and appends
\* nothing to the receiver's log.
C26_RejectsOutOfOrder ==
    [][\A n \in Node :
          (cret'.op = "replicate" /\ cret'.node = n) =>
              \A request \in ReplicationRequests \cup GapRequests :
                  ( /\ request.entries # << >>
                    /\ Head(request.entries).index # LastIndex(n) + 1
                    /\ OnReplicationRequest(n, request) ) =>
                      /\ cret'.outcome = "rejected"
                      /\ LogContents(nlog'[n]) = LogContents(nlog[n])]_vars

\* C27: a replication request with k entries that a follower answers with
\* success has put its k entries at the end of the follower's log, and the
\* follower's last_applied has grown by k.
C27_FollowerApplies ==
    [][\A n \in Node :
          (cret'.op = "replicate" /\ cret'.node = n /\ cret'.outcome = "ok") =>
              \A request \in ReplicationRequests :
                  OnReplicationRequest(n, request) =>
                      /\ LogContents(nlog'[n]) =
                             LogContents(nlog[n]) \o
                                 [ i \in 1..Len(request.entries) |->
                                       [ value |-> request.entries[i].command,
                                         offset |-> LogEnd(nlog[n].log) + i - 1 ] ]
                      /\ st'[n].last_applied =
                             st[n].last_applied + Len(request.entries)]_vars

(***************************************************************************)
(* Replication rounds and membership.  replicate_to_followers is public:   *)
(* besides append_entry, a caller runs it with no entries (a heartbeat     *)
(* round) or with an entry of the log once more.  add_node stores the      *)
(* NodeInfo it is given.                                                   *)
(***************************************************************************)
\* number of replicate_to_followers calls made
MaxRounds == 2

\* the entry lists a caller of replicate_to_followers may bring
RoundEntries ==
    { << >> } \cup
        { << entry >> :
              entry \in [ term : 1..MaxTerm, index : 1..MaxWrites, command : Commands ] }

\* the list is empty or holds the entry of node n's last write
FromLog(n, entries) ==
    IF entries = << >> THEN TRUE
    ELSE /\ WrittenBy(n) # << >>
         /\ Head(entries).term = LastEntry(n).term
         /\ Head(entries).index = LastEntry(n).index

\* replication.replicate_to_followers(entries) on node n, with no entry or
\* with the entry of the node's last write once more
ReplicateOp(n, entries) ==
    /\ ncalls.requests < MaxRounds
    /\ FromLog(n, entries)
    /\ \E r \in { ReplicateToFollowers([ s |-> st[n], next_index |-> next_index[n],
                                          match_index |-> match_index[n] ],
                                        n, entries, overflow_checks) } :
           /\ st' = [ st EXCEPT ![n] = r.rs.s ]
           /\ next_index' = [ next_index EXCEPT ![n] = r.rs.next_index ]
           /\ match_index' = [ match_index EXCEPT ![n] = r.rs.match_index ]
           /\ cret' = [ NoCret EXCEPT !.op = "round", !.node = n,
                          !.outcome = r.outcome, !.commit = r.rs.s.commit_index,
                          !.replicated = r.outcome = "true" ]
    /\ ncalls' = [ ncalls EXCEPT !.requests = ncalls.requests + 1 ]
    /\ UNCHANGED << logVars, concVars, taskVars, nlog, written, overflow_checks, epc >>

\* the NodeInfo values a caller of add_node brings: a node as NodeInfo::new
\* makes it, or one whose term is known to be higher
NodeInfos ==
    [ role : { "Follower" }, term : { 0, MaxTerm }, last_heartbeat : { None },
      is_alive : { TRUE } ]

\* state_manager.add_node(node_info) on node n, for node m
AddNode(n, m, node_info) ==
    /\ st' = [ st EXCEPT ![n].nodes = MapPut(st[n].nodes, m, node_info) ]
    /\ UNCHANGED << logVars, concVars, taskVars, next_index, match_index, nlog, cret,
                    written, ncalls, overflow_checks, epc >>

NextRounds ==
    \/ \E n \in Writers : FollowerTimeout(n)
    \/ \E n \in Writers : VoteForSelf(n)
    \/ \E n \in Writers : SetCandidate(n)
    \/ \E n \in Writers : RunCandidateLoop(n)
    \/ \E n \in Writers : RunLeaderLoop(n)
    \/ \E n \in Writers, data \in Commands : WriteOp(n, data)
    \/ \E n \in Writers, entries \in RoundEntries : ReplicateOp(n, entries)
    \/ \E n \in Writers, m \in Node \ Writers, node_info \in NodeInfos :
           AddNode(n, m, node_info)

SpecRounds == InitCluster /\ [][NextRounds]_vars

\* C28: on every node commit_index <= last_applied, whatever writes and
\* replication rounds the node has run.
C28_CommitWithinApplied ==
    \A n \in Node : st[n].commit_index <= st[n].last_applied

\* C29: the commit_index of a node that is and stays leader never goes down,
\* whatever writes and replication rounds, with or without entries, it runs.
C29_CommitNeverDecreases ==
    [][\A n \in Node :
          (IsLeader(st[n], n) /\ IsLeader(st[n], n)') =>
              st'[n].commit_index >= st[n].commit_index]_vars

\* C30: every next_index a leader has recorded for a peer is at least 1.
C30_NextIndexAtLeastOne ==
    \A n \in Node : \A m \in DOMAIN next_index[n] : next_index[n][m] >= 1

(***************************************************************************)
(* The leader's record of a peer after a replication that carried entries. *)
(***************************************************************************)
\* the peers whose reply to a request of node n in its present term is a
\* success: replicate_to_followers sends to the alive nodes other than n
SuccessPeers(n) ==
    { m \in GetAliveNodes(st[n]) \ { n } :
          st[n].current_term >= st[n].nodes[m].term }

\* C31: after a write (a step that adds to the history of the writes that
\* returned Ok) whose entry a peer answered with success, the leader
\* holds match_index[peer] = prev_log_index + len(entries) and
\* next_index[peer] = match_index[peer] + 1, from the peer's first
\* replication on.
C31_IndicesAfterSuccess ==
    [][\A n \in Writers :
          (written' # written /\ cret'.node = n) =>
              \A m \in SuccessPeers(n) :
                  /\ match_index'[n][m] = SatSub(MapGet(next_index[n], m), 1) + 1
                  /\ next_index'[n][m] = match_index'[n][m] + 1]_vars

(***************************************************************************)
(* Membership.  add_node, remove_node, mark_node_dead and update_heartbeat *)
(* of the ClusterStateManager are public and DiscoveryManager passes them  *)
(* on (register_node, unregister_node, update_node_heartbeat): a caller    *)
(* may run them in any order, on any node id.                              *)
(***************************************************************************)
\* state_manager.remove_node(m) on node n
DropNode(n, m) ==
    /\ st' = [ st EXCEPT ![n] = RemoveNode(st[n], m) ]
    /\ UNCHANGED << logVars, concVars, taskVars, next_index, match_index, nlog, cret,
                    written, ncalls, overflow_checks, epc >>

\* state_manager.update_heartbeat(m) on node n
Heartbeat(n, m) ==
    /\ st' = [ st EXCEPT ![n] = UpdateHeartbeat(st[n], m) ]
    /\ UNCHANGED << logVars, concVars, taskVars, next_index, match_index, nlog, cret,
                    written, ncalls, overflow_checks, epc >>

NextMembers ==
    \/ \E n \in Writers, m \in Node, node_info \in NodeInfos : AddNode(n, m, node_info)
    \/ \E n \in Writers, m \in Node : DropNode(n, m)
    \/ \E n \in Writers, m \in Node : MarkDead(n, m)
    \/ \E n \in Writers, m \in Node : Heartbeat(n, m)

SpecMembers == InitElect /\ [][NextMembers]_vars

\* C32: after any sequence of add_node, remove_node, mark_node_dead and
\* update_heartbeat, get_quorum_size() is floor(a/2) + 1, a being the
\* number of nodes of the cluster state whose is_alive flag is true.
C32_QuorumOfAlive ==
    \A n \in Node :
        GetQuorumSize(st[n]) =
            (Cardinality({ m \in DOMAIN st[n].nodes : st[n].nodes[m].is_alive }) \div 2) + 1

\* three nodes are registered on n1, n2 was marked dead and a heartbeat has
\* brought it back, n1 and n3 are marked dead: one node is alive
C32_Witness ==
    /\ DOMAIN st["n1"].nodes = Node
    /\ IsSome(st["n1"].nodes["n2"].last_heartbeat)
    /\ st["n1"].nodes["n2"].is_alive
    /\ ~st["n1"].nodes["n1"].is_alive
    /\ ~st["n1"].nodes["n3"].is_alive
    /\ GetQuorumSize(st["n1"]) = 1

(***************************************************************************)
(* Health check: cluster/discovery.rs.  check_node_health copies the state *)
(* (get_state) and then calls mark_node_dead, which takes the state lock   *)
(* again, for the nodes it picked on the copy; the discovery loop is a     *)
(* task of its own (WalService::start), so other calls on the state        *)
(* manager run between the two.  Of the copy a task keeps what the loop    *)
(* reads from it: the ids it goes on to mark.                              *)
(***************************************************************************)
\* check_node_health, the loop over the copy: the nodes other than the
\* local one whose last_heartbeat is there and older than
\* 3 x election_timeout
Expired(state, self) ==
    { node_id \in DOMAIN state.nodes \ { self } :
          /\ IsSome(state.nodes[node_id].last_heartbeat)
          /\ Unwrap(state.nodes[node_id].last_heartbeat) > ElectionTimeout * 3 }

\* the mark_node_dead calls of check_node_health
RECURSIVE MarkNodesDead(_, _)
MarkNodesDead(s, node_ids) ==
    IF node_ids = << >> THEN s
    ELSE MarkNodesDead(MarkNodeDead(s, Head(node_ids)), Tail(node_ids))

\* check_node_health on node n: get_state and the loop over the copy
HealthBegin(k, n) ==
    /\ tasks[k].pc = "idle"
    /\ tasks' = [ tasks EXCEPT ![k] = [ NoTask EXCEPT !.pc = "marking", !.op = "health",
                                          !.node = n,
                                          !.snap = Some(Expired(st[n], n)) ] ]
    /\ UNCHANGED << logVars, concVars, clusterVars, vote_term, timers >>

\* check_node_health: its mark_node_dead calls
HealthEnd(k) ==
    /\ tasks[k].pc = "marking"
    /\ st' = [ st EXCEPT ![tasks[k].node] =
                   MarkNodesDead(st[tasks[k].node], SetToSeq(Unwrap(tasks[k].snap))) ]
    /\ tasks' = [ tasks EXCEPT ![k] = NoTask ]
    /\ UNCHANGED << logVars, concVars, next_index, match_index, nlog, cret, written,
                    ncalls, overflow_checks, epc, vote_term, timers >>

NextHealth ==
    \/ Sleep
    \/ \E n \in Writers, m \in Node : Heartbeat(n, m)
    \/ \E k \in { "k1" }, n \in Writers : HealthBegin(k, n)
    \/ \E k \in { "k1" } : HealthEnd(k)

SpecHealth == InitElect /\ [][NextHealth]_vars

\* C33: a health check marks dead exactly the peers whose last heartbeat is
\* older than 3 x election_timeout: when it ends, every peer whose heartbeat
\* was that old when it began is dead, and it has changed no other node:
\* not the local node, not a peer whose heartbeat is more recent, not a peer
\* that never recorded a heartbeat.
C33_HealthCheckMarksExpired ==
    [][\A k \in Tasks :
          (tasks[k].pc = "marking" /\ tasks'[k].pc = "idle") =>
              \A m \in DOMAIN st[tasks[k].node].nodes :
                  /\ m \in Unwrap(tasks[k].snap) =>
                         ~st'[tasks[k].node].nodes[m].is_alive
                  /\ m \notin Expired(st[tasks[k].node], tasks[k].node) =>
                         st'[tasks[k].node].nodes[m] = st[tasks[k].node].nodes[m]]_vars

(***************************************************************************)
(* A Segment used on its own.  segment::new and the methods of Segment are *)
(* public (walrus::log::segment): a caller opens the segment of base       *)
(* offset initial_offset with the configuration new_log would pass,        *)
(* appends to it, drops it and opens it again.  The variable log holds the *)
(* Segment the caller owns, appended the records its appends returned an   *)
(* offset for.                                                             *)
(***************************************************************************)
\* segment::new(dir, path, initial_offset, conf)
OpenSegment ==
    /\ log = None
    /\ \E r \in { SegmentNew(disk, cfg.initial_offset, EffectiveConfig(cfg)) } :
           /\ log' = Some(r.seg)
           /\ disk' = r.disk
    /\ ret' = [ NoRet EXCEPT !.op = "open" ]
    /\ reopened' = (cfg.initial_offset \in DOMAIN disk)
    /\ UNCHANGED << cfg, appended, nappends >>
    /\ UNCHANGED << concVars, clusterVars, taskVars >>

\* segment.append(&mut record)
AppendSegment(value) ==
    /\ IsSome(log)
    /\ nappends < MaxAppends
    /\ \E r \in { SegmentAppend(Unwrap(log), disk, [ value |-> value, offset |-> 0 ]) } :
           /\ log' = Some(r.seg)
           /\ disk' = r.disk
           /\ ret' = [ NoRet EXCEPT !.op = "append", !.ok = r.ok, !.err = r.err,
                                    !.offset = r.offset ]
           /\ appended' = IF r.ok
                            THEN Append(appended, [ offset |-> r.offset, value |-> value,
                                                   by |-> "main" ])
                            ELSE appended
    /\ nappends' = nappends + 1
    /\ UNCHANGED << cfg, reopened >>
    /\ UNCHANGED << concVars, clusterVars, taskVars >>

\* the Segment is dropped: the BufWriter of its store flushes as it goes
DropSegment ==
    /\ IsSome(log)
    /\ disk' = SegmentClose(Unwrap(log), disk).disk
    /\ log' = None
    /\ ret' = [ NoRet EXCEPT !.op = "drop" ]
    /\ UNCHANGED << cfg, appended, nappends, reopened >>
    /\ UNCHANGED << concVars, clusterVars, taskVars >>

\* an empty directory, no Segment yet
InitSegments ==
    /\ cfg \in Configs
    /\ disk = << >>
    /\ log = None
    /\ ret = NoRet
    /\ appended = << >>
    /\ nappends = 0
    /\ reopened = FALSE
    /\ ConcIdle
    /\ ClusterOff

NextSegments ==
    \/ OpenSegment
    \/ \E value \in Values : AppendSegment(value)
    \/ DropSegment

SpecSegments == InitSegments /\ [][NextSegments]_vars

\* C34: a segment that has just been opened has next_offset = base_offset +
\* last_rel_off + 1 when records were appended to it (last_rel_off is then
\* their number less one) and next_offset = base_offset when none ever was,
\* also when its files were there already.
C34_OpenRecoversNextOffset ==
    (IsSome(log) /\ ret.op = "open") =>
        /\ Unwrap(log).base_offset = cfg.initial_offset
        /\ Unwrap(log).next_offset = cfg.initial_offset + Len(appended)

\* C35: only the active segment is appended to: a Log.append leaves the
\* next_offset, the index size and the store size of every segment that a
\* rotation has moved out of the active slot as they were.
C35_ClosedSegmentsImmutable ==
    [][\A value \in Values, caller_offset \in CallerOffsets :
          AppendOp(value, caller_offset) =>
              \A i \in 1..Len(Unwrap(log).segments) :
                  /\ Unwrap(log').segments[i].next_offset
                       = Unwrap(log).segments[i].next_offset
                  /\ Unwrap(log').segments[i].index.size
                       = Unwrap(log).segments[i].index.size
                  /\ Unwrap(log').segments[i].store.size
                       = Unwrap(log).segments[i].store.size]_vars

\* an append has returned an offset on a Log that has moved two segments
\* out of the active slot: the first of them was there during that append
C35_Witness ==
    /\ IsSome(log)
    /\ ret.op = "append" /\ ret.ok
    /\ Len(Unwrap(log).segments) >= 2
    /\ Unwrap(log).segments[1].next_offset > Unwrap(log).segments[1].base_offset

(***************************************************************************)
(* An Index used on its own.  index::new, Index::read and Index::write are *)
(* public (walrus::log::index): a caller opens the index over a new file   *)
(* with the configuration new_log would pass, writes entries and reads     *)
(* them.  The variable log holds the Index, disk its file, appended the    *)
(* entries the writes that returned Ok wrote, and ret the offset asked for *)
(* and the entry read.  An offset is the i64 high * 2^32 + low.            *)
(***************************************************************************)
\* the entries a caller writes
IndexEntries == { 0, 1 } \X { 0, 10 }

\* the offsets a caller reads: -1, the entries around the end of the index,
\* and the same 2^32 further
IndexOffsets ==
    [ high : { 0 }, low : -1..(MaxAppends + 1) ] \cup [ high : { 1 }, low : 0..MaxAppends ]

\* index::new over a file just created
InitIndex ==
    /\ cfg \in Configs
    /\ \E r \in { IndexNew(EmptyIndexFile, EffectiveConfig(cfg)) } :
           /\ log = Some(r.index)
           /\ disk = r.ifile
    /\ ret = NoRet
    /\ appended = << >>
    /\ nappends = 0
    /\ reopened = FALSE
    /\ ConcIdle
    /\ ClusterOff

\* index.write(off, pos)
WriteIndex(entry) ==
    /\ nappends < MaxAppends
    /\ \E r \in { IndexWrite(Unwrap(log), disk, entry[1], entry[2]) } :
           /\ log' = Some(r.index)
           /\ disk' = r.ifile
           /\ ret' = [ NoRet EXCEPT !.op = "write", !.ok = r.ok ]
           /\ appended' = IF r.ok THEN Append(appended, entry) ELSE appended
    /\ nappends' = nappends + 1
    /\ UNCHANGED << cfg, reopened >>
    /\ UNCHANGED << concVars, clusterVars, taskVars >>

\* index.read(offset)
ReadIndex(offset) ==
    /\ \E r \in { IndexReadWide(Unwrap(log), disk, offset.high, offset.low) } :
           ret' = [ NoRet EXCEPT !.op = "read", !.ok = r.ok, !.offset = offset,
                                 !.record = << r.off, r.pos >> ]
    /\ UNCHANGED << cfg, disk, log, appended, nappends, reopened >>
    /\ UNCHANGED << concVars, clusterVars, taskVars >>

NextIndex ==
    \/ \E entry \in IndexEntries : WriteIndex(entry)
    \/ \E offset \in IndexOffsets : ReadIndex(offset)

SpecIndex == InitIndex /\ [][NextIndex]_vars

\* C36: on an Index holding n written entries, read(-1) fails when n = 0 and
\* returns the last written entry otherwise; read(k) returns the k-th
\* written entry for 0 <= k < n and fails for every k >= n, however large.
C36_IndexReads ==
    ret.op = "read" =>
        IF ret.offset.high = 0 /\ ret.offset.low = -1
          THEN IF appended = << >> THEN ~ret.ok
               ELSE ret.ok /\ ret.record = appended[Len(appended)]
        ELSE IF ret.offset.high = 0 /\ ret.offset.low < Len(appended)
          THEN ret.ok /\ ret.record = appended[ret.offset.low + 1]
        ELSE ~ret.ok

(***************************************************************************)
(* A replication round next to the handlers.  replicate_to_followers tests *)
(* is_leader and reads the alive nodes, then awaits replicate_to_node for  *)
(* each of them and update_commit_index; a heartbeat or a vote request     *)
(* handled on the node in between changes its term and its leader_id.      *)
(***************************************************************************)
\* replication.replicate_to_followers(entries) on node n, up to the loop
\* over the alive nodes
ReplicateBegin(k, n, entries) ==
    /\ tasks[k].pc = "idle"
    /\ ncalls.requests < MaxRounds
    /\ IsLeader(st[n], n)
    /\ tasks' = [ tasks EXCEPT ![k] =
                    [ NoTask EXCEPT !.pc = "sending", !.op = "replicate", !.node = n,
                                    !.request = Some(entries), !.snap = Some(st[n]) ] ]
    /\ UNCHANGED << logVars, concVars, clusterVars, vote_term, timers >>

\* replicate_to_followers: the replies handled by replicate_to_node, then
\* update_commit_index when a quorum answered
ReplicateEnd(k) ==
    /\ tasks[k].pc = "sending"
    /\ LET n == tasks[k].node
       IN  \E r \in { ReplicateToNodes([ s |-> st[n], next_index |-> next_index[n],
                                          match_index |-> match_index[n] ],
                                        n, SetToSeq(GetAliveNodes(Unwrap(tasks[k].snap))),
                                        Unwrap(tasks[k].request), 0) } :
             \E u \in { IF r.success_count >= GetQuorumSize(st[n]) - 1
                          THEN UpdateCommitIndex(r.rs.s, r.rs.match_index, overflow_checks)
                          ELSE [ panic |-> FALSE, s |-> r.rs.s ] } :
               /\ st' = [ st EXCEPT ![n] = u.s ]
               /\ next_index' = [ next_index EXCEPT ![n] = r.rs.next_index ]
               /\ match_index' = [ match_index EXCEPT ![n] = r.rs.match_index ]
               /\ cret' = [ NoCret EXCEPT !.op = "round", !.node = n,
                              !.outcome = IF u.panic THEN "panic" ELSE "ok",
                              !.commit = u.s.commit_index ]
    /\ ncalls' = [ ncalls EXCEPT !.requests = ncalls.requests + 1 ]
    /\ tasks' = [ tasks EXCEPT ![k] = NoTask ]
    /\ UNCHANGED << logVars, concVars, nlog, written, overflow_checks, epc, vote_term,
                    timers >>

NextStale ==
    \/ \E n \in Writers : FollowerTimeout(n)
    \/ \E n \in Writers : VoteForSelf(n)
    \/ \E n \in Writers : SetCandidate(n)
    \/ \E n \in Writers : RunCandidateLoop(n)
    \/ \E n \in Writers : RunLeaderLoop(n)
    \/ \E n \in Writers, request \in ElectionRequests : PeerVoteRequest(n, request)
    \/ \E n \in Writers, heartbeat \in HeartbeatRequests : PeerHeartbeat(n, heartbeat)
    \/ \E k \in Tasks, n \in Writers, entries \in RoundEntries :
           ReplicateBegin(k, n, entries)
    \/ \E k \in Tasks : ReplicateEnd(k)

SpecStale == InitHandlers /\ [][NextStale]_vars

\* C37: the replies of a replication round are dropped once the node has
\* lost leadership: the step that handles them changes match_index,
\* next_index or commit_index only on a node that is leader.
C37_StaleRepliesDiscarded ==
    [][\A k \in Tasks :
          ( /\ tasks[k].pc = "sending" /\ tasks'[k].pc = "idle"
            /\ ~IsLeader(st[tasks[k].node], tasks[k].node) ) =>
              /\ match_index'[tasks[k].node] = match_index[tasks[k].node]
              /\ next_index'[tasks[k].node] = next_index[tasks[k].node]
              /\ st'[tasks[k].node].commit_index
                   = st[tasks[k].node].commit_index]_vars

\* C38: update_commit_index never fails on its index arithmetic, whatever
\* nodes are alive and whatever match_index holds: no write on a leader ends
\* in a panic.
C38_CommitIndexNeverPanics ==
    cret.op = "write" => cret.outcome # "panic"

\* ---------------------------------------------------------------------------
\* Failed appends (segment.rs 73-95, index.rs 128-136, log.rs 101-113)
\* ---------------------------------------------------------------------------

\* the size of the active segment's index, 0 when the log has no active segment
ActiveIndexSize(lg) ==
    IF IsSome(lg.active_segment) THEN Unwrap(lg.active_segment).index.size
    ELSE 0

\* C39: a Log.append that fails leaves the active segment's next_offset and
\* index size as they were before the call, every record appended before still
\* reads back with its offset and value, and an append made right after it,
\* when it succeeds, returns the offset the failed one would have received;
\* every successful append returns the offset following the last successful
\* one, however many failed ones lie between them.
C39_FailedAppendConsumesNothing ==
    [][\A value \in Values, caller_offset \in CallerOffsets :
          AppendOp(value, caller_offset) =>
              IF ret'.ok
                THEN ret'.offset = LogEnd(Unwrap(log))
                ELSE /\ LogEnd(Unwrap(log')) = LogEnd(Unwrap(log))
                     /\ ActiveIndexSize(Unwrap(log')) = ActiveIndexSize(Unwrap(log))
                     /\ \A i \in 1..Len(appended) :
                            LET r == LogRead(Unwrap(log'), disk', appended[i].offset)
                            IN  /\ r.ok
                                /\ r.record.value = appended[i].value
                                /\ r.record.offset = appended[i].offset
                     /\ \A next \in Values :
                            LET a == LogAppend(Unwrap(log'), disk',
                                               [ value |-> next, offset |-> caller_offset ])
                            IN  a.ok => a.offset = LogEnd(Unwrap(log))]_vars

\* a successful append that follows a failed one: two records are in the log,
\* three appends were made, and the last one returned the second offset
C39_Witness ==
    /\ IsSome(log)
    /\ ret.op = "append" /\ ret.ok
    /\ Len(appended) = 2
    /\ nappends = 3
    /\ ret.offset = cfg.initial_offset + 1

\* C40: on every node, is_leader() (leader_id is the node's own id) is true
\* exactly when the node's own role in its cluster state is Leader.
C40_IsLeaderIffLeaderRole ==
    \A n \in Node :
        n \in DOMAIN st[n].nodes =>
            (IsLeader(st[n], n) <=> st[n].nodes[n].role = "Leader")

====
